---- MODULE Spec2Model ----
(***************************************************************************)
(* A state-machine model of the xhs-mcp domain services:                   *)
(*   - DownloadService.getNoteDetail / downloadNote / batchDownloadNotes   *)
(*   - PublishService.publishContent / publishNote / publishVideo and the  *)
(*     polling waits behind them                                           *)
(*   - UserService.getUserProfile / getUserNoteLinks / resolveProfileUrl   *)
(* Times are in milliseconds, as in the source.                            *)
(***************************************************************************)
EXTENDS Integers, Sequences, FiniteSets, TLC

VARIABLES
    op,          \* the top-level operation this run executes
    pc,          \* control point of the top-level operation
    openPages,   \* ids of the pages created by createPage and not yet closed
    pageCount,   \* number of pages created so far (next id = pageCount + 1)
    browserPath, \* the browserPath argument of the operation
    pagePaths,   \* history: the executable path each createPage call was given
    nav,         \* download / user services: the last navigation of the open page
    outcome,     \* what the top-level operation returned or threw
    \* ---- DownloadService
    bNotes,      \* batchDownloadNotes: the notes argument
    bLimit,      \* batchDownloadNotes: options.limit
    bDelay,      \* batchDownloadNotes: options.delay (ms)
    bIdx,        \* batchDownloadNotes: loop variable i (0-based)
    bRes,        \* batchDownloadNotes: the result object
    bAttempts,   \* history: notes handed to downloadNote, in order
    bSlept,      \* time slept since the last downloadNote call of the batch settled
    bThrown,     \* history: (noteId, title, message) recorded where downloadNote throws
    dNote,       \* getNoteDetail / downloadNote: the note being fetched
    dPc,         \* getNoteDetail / downloadNote: control point
    dPage,       \* getNoteDetail: the page it holds (0 = none)
    dErr,        \* getNoteDetail / downloadNote: pending error message
    dFiles,      \* downloadNote: downloadedFiles
    dFetched,    \* history: the media fetches of this downloadNote call that succeeded
    dMeta,       \* downloadNote: metadata.downloadedFiles as written to metadata.json
    disk,        \* the output directory: each path written, with the note that wrote it last
    \* ---- PublishService
    pIn,         \* publishContent: its arguments (type, title, content, media, tags)
    pSteps,      \* publish: the steps of the flow that have returned, in order
    pPage,       \* publishNote / publishVideo: the page it holds (0 = none)
    pErr,        \* the error travelling through the finally block (NoErr = none)
    pNoteId,     \* the note id returned by completion detection ("" = null)
    pNavs,       \* history: navigations started
    pClicks,     \* history: clicks on the publish button
    pSaves,      \* history: saveCookiesFromPage calls
    xPage,       \* the page of the latest-note listing fallback (0 = none)
    xRan,        \* extractNoteIdFromPage: the extractors run so far, with what each found
    \* ---- the polling waits of PublishService
    wKind,       \* which wait is running or ran last
    wPhase,      \* "idle", "poll" (loop head), "observed" (page queried), "resolved"
    wElapsed,    \* Date.now() - startTime
    wDom,        \* what the page showed on the tick being evaluated
    wOutcome,    \* how the wait ended
    wAllQuiet,   \* history: every tick so far showed no signal and the publish page
    wSawProc,    \* history: an earlier tick showed a processing indicator
    wSlept,      \* waitForCondition: the checkInterval slept after the last tick (0 = none yet)
    \* ---- UserService
    uIn,         \* getUserProfile / getUserNoteLinks: the kind of input given
    uPage,       \* the page the running step holds (0 = none)
    uErr,        \* the error travelling through the main finally block
    uUrl,        \* the profile URL resolveProfileUrl settled on ("" = null)
    uPending,    \* what a helper's try block is about to hand back
    uLimit,      \* getUserProfile: the limit argument
    uNotes,      \* getUserProfile: the note ids of the notes returned
    \* ---- front ends: MCP tool handlers and CLI commands
    fLayer,      \* "tool", "cli", or "none" when a service is driven directly
    fReq,        \* the tool request / command line being served
    fPc,         \* position in the handler / command action
    fRes,        \* what the last service call returned or threw
    fOut,        \* tool: responses returned; cli: writes to stdout, in order
    fExit,       \* cli: process exit status, NotExited while running
    fCalls,      \* service calls made for this request, in order
    fServed,     \* tool requests started so far
    lLogin,      \* background logins started by handleAuthLogin, by state
    \* ---- PublishService: the helpers that resolve a page element
    rTarget,     \* the element looked for ("none" when no helper runs)
    rDom,        \* per strategy: what its selector matches first on the page
    rIdx,        \* the strategy tried next
    rFound,      \* the element accepted, NoElement before that
    rPc,         \* "idle", "search", "accepted", "notfound", "done"
    rWrites,     \* what the step has put into elements, in order
    rErr         \* the error the step threw (NoErr = none)

vars == <<op, pc, openPages, pageCount, browserPath, pagePaths, nav, outcome,
          bNotes, bLimit, bDelay, bSlept, bIdx, bRes, bAttempts, bThrown,
          dNote, dPc, dPage, dErr, dFiles, dFetched, dMeta, disk,
          pIn, pSteps, pPage, pErr, pNoteId, pNavs, pClicks, pSaves, xPage, xRan,
          wKind, wPhase, wElapsed, wDom, wOutcome, wAllQuiet, wSawProc, wSlept,
          uIn, uPage, uErr, uUrl, uPending, uLimit, uNotes,
          fLayer, fReq, fPc, fRes, fOut, fExit, fCalls, fServed, lLogin,
          rTarget, rDom, rIdx, rFound, rPc, rWrites, rErr>>

pageVars     == <<openPages, pageCount, browserPath, pagePaths>>
commonVars   == <<openPages, pageCount, browserPath, pagePaths, nav>>
batchVars    == <<bNotes, bLimit, bDelay, bSlept, bIdx, bRes, bAttempts, bThrown>>
detailVars   == <<dNote, dPc, dPage, dErr, dFiles, dFetched, dMeta, disk>>
publishVars  == <<pIn, pSteps, pPage, pErr, pNoteId, pNavs, pClicks, pSaves, xPage, xRan>>
waitVars     == <<wKind, wPhase, wElapsed, wDom, wOutcome, wAllQuiet, wSawProc, wSlept>>
userVars     == <<uIn, uPage, uErr, uUrl, uPending, uLimit, uNotes>>
frontVars    == <<fLayer, fReq, fPc, fRes, fOut, fExit, fCalls, fServed, lLogin>>
resolveVars  == <<rTarget, rDom, rIdx, rFound, rPc, rWrites, rErr>>
serviceVars  == <<commonVars, batchVars, detailVars, publishVars, waitVars, userVars,
                  resolveVars>>
outsidePublishNoFront == <<batchVars, detailVars, userVars, resolveVars>>
outsideDownload == <<publishVars, waitVars, userVars, frontVars, resolveVars>>
outsidePublish  == <<outsidePublishNoFront, frontVars>>
outsideUser     == <<batchVars, detailVars, publishVars, waitVars, frontVars, resolveVars>>

----------------------------------------------------------------------------
(* Bounds of the model *)

MaxNotes == 3

\* toast selectors scanned per tick (the source lists four)
NumToastSel == 2

\* most media paths given to a publish that passes validation
MaxMedia == 2

\* tool requests served one after another on one server
MaxRequests == 2

\* most notes a user profile has
MaxProfileNotes == 11

\* most notes a profile page lists in its state or in its DOM
MaxPageNotes == 2

\* most scrolls of a profile page that load new content
MaxScrolls == 2

\* most strategies of one helper whose selector matches something on the page
MaxMatches == 2

\* selectors handed to findElementBySelectors for the video file input
MaxFileInputSelectors == 2

(* Program constants *)

DefaultDelay == 2000
PublishMaxWaitTime == 60000
UploadCompletionTimeout == 300000
ProcessingTimeout == 120000
CompletionTimeout == 300000
ProcessingCheck == 3000
CompletionCheck == 2000
ProcessingPollInterval == 5000
PublishPollSleep == 1000
UploadPollSleep == 2000
UploadErrorSleep == 1000
ImageLimit == 18
TitleMaxWidth == 40
DefaultNoteLimit == 10
MaxScrollAttempts == 10
NumTitleSelectors == 13
MaxContentLength == 1000
ExitSuccess == 0
ExitFailure == 1

----------------------------------------------------------------------------
(* Helpers *)

Min(a, b) == IF a < b THEN a ELSE b

NoOutcome == [status |-> "none"]

\* The optional context argument of an error constructor: not given, or an
\* object with the given keys.
NoContextArg == [given |-> FALSE, keys |-> {}]

\* XHSError constructor: this.context = context ?? {}  (the keys it holds)
XHSErrorContext(context) == IF context.given THEN context.keys ELSE {}

\* The context argument at the throw sites of the publish, download and user
\* services: each is `new <Class>(message)`, with no second argument.
ThrowSiteContext == NoContextArg

\* The notes a profile can list.  n1 is an image note with two images; n2 is
\* a video note with a cover image, by the same author, given as an
\* xhslink.com short link.
NoteUniverse ==
    { [noteId |-> "n1", title |-> "t1", author |-> "amy", short |-> FALSE, imgs |-> 2, video |-> FALSE],
      [noteId |-> "n2", title |-> "t2", author |-> "amy", short |-> TRUE,  imgs |-> 1, video |-> TRUE] }

NoNote == [noteId |-> "", title |-> "", author |-> "", short |-> FALSE, imgs |-> 0, video |-> FALSE]

NoteLists == UNION { [1..n -> NoteUniverse] : n \in 0..MaxNotes }

----------------------------------------------------------------------------
(* BrowserManager (shared/browser manager, not part of the given sources)  *)

\* browserPath is optional: undefined when the caller gives none.
NoBrowserPath == ""

\* A custom browser executable path.  The services hand browserPath on and
\* never branch on it, so every operation is started with this one.
CustomBrowserPath == "/opt/chrome"

\* No navigation has been made on the open page.
NoNav == [by |-> "none", attempts |-> 0, ok |-> TRUE]

\* navigateWithRetry(page, url, maxAttempts = 3)
MaxAttempts == 3

\* page.goto(url, options): one attempt; it resolves, or it rejects with the
\* navigation's own error (a timeout, a network error).
Goto ==
    { [by |-> "goto", attempts |-> 1, ok |-> b] : b \in BOOLEAN }

\* navigateWithRetry: the navigation is tried again after a failure, up to
\* maxAttempts times; it returns at the first attempt that succeeds and throws
\* BrowserNavigationError when the last one failed.
NavigateWithRetry ==
    { [by |-> "navigateWithRetry", attempts |-> k, ok |-> TRUE] : k \in 1..MaxAttempts }
    \cup { [by |-> "navigateWithRetry", attempts |-> MaxAttempts, ok |-> FALSE] }

\* createPage(headless, executablePath, loadCookies) succeeded: a fresh page
\* is open.
CreatePage(id, executablePath) ==
    /\ id = pageCount + 1
    /\ pageCount' = pageCount + 1
    /\ openPages' = openPages \cup {id}
    /\ pagePaths' = Append(pagePaths, executablePath)
    /\ UNCHANGED <<browserPath, nav>>

\* page.close()
ClosePage(id) ==
    /\ openPages' = openPages \ {id}
    /\ nav' = NoNav
    /\ UNCHANGED <<pageCount, browserPath, pagePaths>>

----------------------------------------------------------------------------
(* DownloadService.getNoteDetail                                           *)

\* try { const page = await createPage(false, browserPath, true);
GetNoteDetail_CreatePage ==
    /\ dPc = "detail_create"
    /\ \/ /\ CreatePage(pageCount + 1, browserPath)
          /\ dPage' = pageCount + 1
          /\ dPc' = "detail_navigate"
          /\ UNCHANGED dErr
       \/ /\ dPc' = "detail_catch"
          /\ dErr' = <<"BrowserLaunchError">>
          /\ UNCHANGED <<dPage, commonVars>>
    /\ UNCHANGED <<outsideDownload, op, pc, outcome, batchVars, dNote, dFiles, dFetched, dMeta, disk>>

\* short link: page.goto(shortUrl); otherwise navigateWithRetry(page, url)
GetNoteDetail_Navigate ==
    /\ dPc = "detail_navigate"
    /\ \E n \in IF dNote.short THEN Goto ELSE NavigateWithRetry :
          /\ nav' = n
          /\ IF n.ok
             THEN /\ dPc' = "detail_extract"
                  /\ UNCHANGED dErr
             ELSE /\ dPc' = "detail_finally"
                  /\ dErr' = IF dNote.short THEN <<"TimeoutError">>
                             ELSE <<"BrowserNavigationError">>
    /\ UNCHANGED <<outsideDownload, op, pc, outcome, batchVars, pageVars, dNote, dPage, dFiles, dFetched, dMeta, disk>>

\* page.evaluate(pageInfo); extractNoteData(page); null => DownloadError
GetNoteDetail_Extract ==
    /\ dPc = "detail_extract"
    /\ \/ /\ dPc' = "detail_finally"
          /\ dErr' = <<>>
       \/ /\ dPc' = "detail_finally"
          /\ dErr' \in { <<"EvaluateError">>, <<"Failed to extract note data from page">> }
    /\ UNCHANGED <<outsideDownload, op, pc, outcome, batchVars, commonVars, dNote, dPage, dFiles, dFetched, dMeta, disk>>

\* } finally { await page.close(); }
GetNoteDetail_Finally ==
    /\ dPc = "detail_finally"
    /\ ClosePage(dPage)
    /\ dPage' = 0
    /\ dPc' = IF dErr = <<>> THEN "detail_return" ELSE "detail_catch"
    /\ UNCHANGED <<outsideDownload, op, pc, outcome, batchVars, dNote, dErr, dFiles, dFetched, dMeta, disk>>

\* } catch (error) { throw new DownloadError(`Failed to get note detail: ${error}`) }
GetNoteDetail_Catch ==
    /\ dPc = "detail_catch"
    /\ dErr' = <<"Failed to get note detail">> \o dErr
    /\ dPc' = "detail_thrown"
    /\ UNCHANGED <<outsideDownload, op, pc, outcome, batchVars, commonVars, dNote, dPage, dFiles, dFetched, dMeta, disk>>

\* getNoteDetail called as the top-level operation: its result reaches the caller.
GetNoteDetail_Done ==
    /\ op = "detail"
    /\ pc = "run"
    /\ dPc \in {"detail_return", "detail_thrown"}
    /\ outcome' = IF dPc = "detail_return"
                  THEN [status |-> "ok"]
                  ELSE [status |-> "thrown", error |-> "DownloadError", message |-> dErr,
                        context |-> XHSErrorContext(ThrowSiteContext)]
    /\ pc' = "done"
    /\ dPc' = "idle"
    /\ UNCHANGED <<outsideDownload, op, batchVars, commonVars, dNote, dPage, dErr, dFiles, dFetched, dMeta, disk>>

----------------------------------------------------------------------------
(* DownloadService.downloadNote                                            *)

ImageFile(note, i) == [dir |-> note.author, kind |-> "image", n |-> i]
VideoFile(note)    == [dir |-> note.author, kind |-> "video", n |-> 0]
MetadataFile(note) == [dir |-> note.author, kind |-> "metadata", n |-> 0]

\* The image loop, were every image path pushed whether or not its fetch
\* succeeded.
FetchedImagesKeepsFailed(note, i, okImgs) ==
    [k \in 1..(note.imgs - i + 1) |-> [dir |-> note.author, kind |-> "image", n |-> k + i - 1]]

\* The image loop: image i is pushed iff its downloadFile did not throw.
RECURSIVE FetchedImages(_, _, _)
FetchedImages(note, i, okImgs) ==
    IF i > note.imgs THEN <<>>
    ELSE (IF i \in okImgs THEN <<ImageFile(note, i)>> ELSE <<>>)
         \o FetchedImages(note, i + 1, okImgs)

\* downloadedFiles after the image loop and the video fetch.
DownloadedMedia(note, okImgs, videoOk) ==
    FetchedImages(note, 1, okImgs)
    \o (IF note.video /\ videoOk THEN <<VideoFile(note)>> ELSE <<>>)

\* downloadedFiles when the metadata sidecar has been written.
DownloadedFiles(note, okImgs, videoOk) ==
    DownloadedMedia(note, okImgs, videoOk) \o <<MetadataFile(note)>>

\* basename(f): the path without its directory
Basename(f) == [kind |-> f.kind, n |-> f.n]

\* downloadedFiles.map((f) => basename(f))
MetadataDownloadedFiles(files) == [i \in 1..Len(files) |-> Basename(files[i])]

NoFetch == [imgs |-> {}, video |-> FALSE]

\* writeFileSync(path, ...) for each of the files: a path that exists is
\* replaced.
WriteFiles(d, files, noteId) ==
    LET paths == { files[i] : i \in 1..Len(files) }
    IN  { e \in d : e.path \notin paths } \cup { [path |-> p, owner |-> noteId] : p \in paths }

\* getNoteDetail returned: fetch every media URL (each failure is only logged),
\* write metadata.json and return; mkdirSync / writeFileSync may throw.
DownloadNote_Fetch ==
    /\ op = "batch"
    /\ dPc = "detail_return"
    /\ \E okImgs \in SUBSET (1..dNote.imgs), videoOk \in BOOLEAN :
          \/ /\ dFiles' = DownloadedFiles(dNote, okImgs, videoOk)
             /\ dFetched' = [imgs |-> okImgs, video |-> dNote.video /\ videoOk]
             /\ dMeta' = MetadataDownloadedFiles(DownloadedMedia(dNote, okImgs, videoOk))
             /\ disk' = WriteFiles(disk, dFiles', dNote.noteId)
             /\ dPc' = "download_return"
             /\ UNCHANGED dErr
          \/ /\ dErr' = <<"Failed to download note", "FsError">>
             /\ dPc' = "download_thrown"
             /\ disk' \in {disk, WriteFiles(disk, DownloadedMedia(dNote, okImgs, videoOk), dNote.noteId)}
             /\ UNCHANGED <<dFiles, dFetched, dMeta>>
    /\ bThrown' = IF dPc' = "download_thrown"
                  THEN Append(bThrown, [noteId |-> dNote.noteId, title |-> dNote.title,
                                        error |-> dErr'])
                  ELSE bThrown
    /\ UNCHANGED <<outsideDownload, op, pc, outcome, commonVars, dNote, dPage,
                   bNotes, bLimit, bDelay, bSlept, bIdx, bRes, bAttempts>>

\* } catch (error) { throw new DownloadError(`Failed to download note: ${error}`) }
DownloadNote_Catch ==
    /\ op = "batch"
    /\ dPc = "detail_thrown"
    /\ dErr' = <<"Failed to download note">> \o dErr
    /\ dPc' = "download_thrown"
    /\ bThrown' = Append(bThrown, [noteId |-> dNote.noteId, title |-> dNote.title,
                                   error |-> dErr'])
    /\ UNCHANGED <<outsideDownload, op, pc, outcome, commonVars, dNote, dPage, dFiles, dFetched, dMeta, disk,
                   bNotes, bLimit, bDelay, bSlept, bIdx, bRes, bAttempts>>

----------------------------------------------------------------------------
(* DownloadService.batchDownloadNotes                                      *)

\* const notesToDownload = limit > 0 ? notes.slice(0, limit) : notes;
NotesToDownload(notes, limit) ==
    IF limit > 0 THEN SubSeq(notes, 1, Min(limit, Len(notes))) ELSE notes

NewBatchResult(totalNotes) ==
    [success |-> TRUE, totalNotes |-> totalNotes, downloadedCount |-> 0,
     failedCount |-> 0, files |-> <<>>, errors |-> <<>>]

\* result.files.push(...downloadResult.files); result.downloadedCount++;
RecordSuccessMiscount(res, files) ==
    [res EXCEPT !.files = @ \o files, !.downloadedCount = @ + Len(files)]

RecordSuccess(res, files) ==
    [res EXCEPT !.files = @ \o files, !.downloadedCount = @ + 1]

\* result.failedCount++; result.errors.push({ noteId, title, error })
RecordFailureNoEntry(res, note, message) ==
    [res EXCEPT !.failedCount = @ + 1]

RecordFailure(res, note, message) ==
    [res EXCEPT !.failedCount = @ + 1,
                !.errors = Append(@, [noteId |-> note.noteId, title |-> note.title,
                                      error |-> message])]

\* if (result.failedCount > 0) { result.success = result.downloadedCount > 0; }
FinalSuccessAllOrNothing(res) == res.failedCount = 0

FinalSuccess(res) ==
    IF res.failedCount > 0 THEN res.downloadedCount > 0 ELSE res.success

\* The loop variable after the catch block: the for loop goes on with i + 1.
IndexAfterFailureBreak(i, len) == len

IndexAfterFailure(i, len) == i + 1

\* for (let i = 0; i < notesToDownload.length; i++) { ... try { downloadNote(...)
Batch_Attempt ==
    /\ op = "batch"
    /\ pc = "batch_loop"
    /\ dPc = "idle"
    /\ bIdx < Len(NotesToDownload(bNotes, bLimit))
    /\ dNote' = NotesToDownload(bNotes, bLimit)[bIdx + 1]
    /\ bAttempts' = Append(bAttempts, NotesToDownload(bNotes, bLimit)[bIdx + 1])
    /\ dPc' = "detail_create"
    /\ dErr' = <<>>
    /\ dFiles' = <<>>
    /\ dFetched' = NoFetch
    /\ dMeta' = <<>>
    /\ UNCHANGED <<outsideDownload, op, pc, outcome, commonVars, dPage, disk,
                   bNotes, bLimit, bDelay, bSlept, bIdx, bRes, bThrown>>

\* downloadNote returned: count it, then sleep(delay) unless this was the last note
Batch_Downloaded ==
    /\ op = "batch"
    /\ pc = "batch_loop"
    /\ dPc = "download_return"
    /\ bRes' = RecordSuccess(bRes, dFiles)
    /\ IF bIdx < Len(NotesToDownload(bNotes, bLimit)) - 1 /\ bDelay > 0
       THEN pc' = "batch_delay" /\ UNCHANGED bIdx
       ELSE pc' = "batch_loop" /\ bIdx' = bIdx + 1
    /\ bSlept' = 0
    /\ dPc' = "idle"
    /\ UNCHANGED <<outsideDownload, op, outcome, commonVars, dNote, dPage, dErr, dFiles, dFetched, dMeta, disk,
                   bNotes, bLimit, bDelay, bAttempts, bThrown>>

\* await sleep(delay) has elapsed
Batch_Delay ==
    /\ op = "batch"
    /\ pc = "batch_delay"
    /\ pc' = "batch_loop"
    /\ bIdx' = bIdx + 1
    /\ bSlept' = bSlept + bDelay
    /\ UNCHANGED <<outsideDownload, op, outcome, commonVars, detailVars,
                   bNotes, bLimit, bDelay, bRes, bAttempts, bThrown>>

\* } catch (error) { result.failedCount++; result.errors.push(...) }
Batch_Failed ==
    /\ op = "batch"
    /\ pc = "batch_loop"
    /\ dPc = "download_thrown"
    /\ bRes' = RecordFailure(bRes, dNote, dErr)
    /\ bIdx' = IndexAfterFailure(bIdx, Len(NotesToDownload(bNotes, bLimit)))
    /\ bSlept' = 0
    /\ dPc' = "idle"
    /\ UNCHANGED <<outsideDownload, op, pc, outcome, commonVars, dNote, dPage, dErr, dFiles, dFetched, dMeta, disk,
                   bNotes, bLimit, bDelay, bAttempts, bThrown>>

\* the loop is over: fix the success flag and return the result
Batch_Return ==
    /\ op = "batch"
    /\ pc = "batch_loop"
    /\ dPc = "idle"
    /\ bIdx >= Len(NotesToDownload(bNotes, bLimit))
    /\ bRes' = [bRes EXCEPT !.success = FinalSuccess(bRes)]
    /\ outcome' = [status |-> "ok"]
    /\ pc' = "done"
    /\ UNCHANGED <<outsideDownload, op, commonVars, detailVars,
                   bNotes, bLimit, bDelay, bSlept, bIdx, bAttempts, bThrown>>

----------------------------------------------------------------------------
(* The polling waits of PublishService                                      *)
(*                                                                          *)
(* One poll tick is modelled in two steps: the page is queried (Observe)    *)
(* and the tick is decided (Evaluate).  What the page shows on a tick is a  *)
(* record of what each group of selectors of the tick finds:                *)
(*   succ   a success / completion indicator (with its text pattern where   *)
(*          the code asks for one)                                          *)
(*   err    an error indicator                                              *)
(*   page   an indicator that the publish page is still showing             *)
(*   proc   a processing indicator                                          *)
(*   toast  per toast selector, in list order: no decisive text, a success  *)
(*          text or an error text                                           *)
(*   button the publish button of .publish-page-publish-btn                 *)
(* q = "throws" stands for a page query that rejects.                       *)

ToastKinds == {"none", "succ", "err"}
ToastFns == [1..NumToastSel -> ToastKinds]
NoToast == [i \in 1..NumToastSel |-> "none"]

NoDom == [q |-> "none", succ |-> FALSE, err |-> FALSE, page |-> FALSE,
          proc |-> FALSE, toast |-> NoToast, button |-> "none"]

ThrowingDom == [NoDom EXCEPT !.q = "throws"]

\* waitForPublishCompletion / waitForVideoPublishCompletion
CompletionDoms ==
    {ThrowingDom} \cup
    [q : {"ok"}, succ : BOOLEAN, err : BOOLEAN, page : BOOLEAN, proc : BOOLEAN,
     toast : ToastFns, button : {"none"}]

\* waitForVideoProcessing
ProcessingDoms ==
    {ThrowingDom} \cup
    [q : {"ok"}, succ : BOOLEAN, err : {FALSE}, page : BOOLEAN, proc : BOOLEAN,
     toast : {NoToast}, button : {"none"}]

\* waitForVideoUploadCompletion
UploadDoms ==
    {ThrowingDom} \cup
    [q : {"ok"}, succ : BOOLEAN, err : {FALSE}, page : BOOLEAN, proc : BOOLEAN,
     toast : {NoToast}, button : {"none", "disabled", "enabled"}]

WaitDoms(kind) ==
    CASE kind = "processing" -> ProcessingDoms
      [] kind = "upload"     -> UploadDoms
      [] OTHER               -> CompletionDoms

HasToast(dom, k) == \E i \in 1..NumToastSel : dom.toast[i] = k

\* const maxWaitTime / timeout of each wait
WaitTimeout(kind) ==
    CASE kind = "processing"   -> ProcessingTimeout
      [] kind = "upload"       -> UploadCompletionTimeout
      [] kind = "publish"      -> PublishMaxWaitTime
      [] OTHER                 -> CompletionTimeout

\* waitForCondition's checkInterval argument of waitForVideoPublishCompletion:
\* `isProcessing ? 5000 : COMPLETION_CHECK`, evaluated when the call is made.
VideoPublishCheckInterval(processing) ==
    IF processing THEN ProcessingPollInterval ELSE CompletionCheck

\* The toast loop of waitForPublishCompletion: the first selector, in list
\* order, whose text is decisive settles the tick.
RECURSIVE ToastScan(_, _)
ToastScan(toast, i) ==
    IF i > NumToastSel THEN "pending"
    ELSE IF toast[i] = "succ" THEN "succeeded"
    ELSE IF toast[i] = "err" THEN "failed"
    ELSE ToastScan(toast, i + 1)

\* One tick of waitForPublishCompletion with the page-presence test inverted.
PublishTickPageInverted(dom) ==
    IF dom.q = "throws" THEN "thrown"
    ELSE IF dom.succ THEN "succeeded"
    ELSE IF dom.err THEN "failed"
    ELSE IF dom.page THEN "succeeded"
    ELSE ToastScan(dom.toast, 1)

\* One tick of waitForPublishCompletion: success indicators, error
\* indicators, "left the publish page", toast texts, else sleep.
PublishTick(dom) ==
    IF dom.q = "throws" THEN "thrown"
    ELSE IF dom.succ THEN "succeeded"
    ELSE IF dom.err THEN "failed"
    ELSE IF ~dom.page THEN "succeeded"
    ELSE ToastScan(dom.toast, 1)

\* One tick of the condition of waitForVideoPublishCompletion.
VideoPublishTick(dom) ==
    IF dom.q = "throws" THEN "thrown"
    ELSE IF dom.succ THEN "succeeded"
    ELSE IF dom.err THEN "failed"
    ELSE IF ~dom.page THEN "succeeded"
    ELSE IF HasToast(dom, "succ") THEN "succeeded"
    ELSE IF HasToast(dom, "err") THEN "failed"
    ELSE "pending"

\* One tick of the condition of waitForVideoProcessing.
ProcessingTick(dom) ==
    IF dom.q = "throws" THEN "thrown"
    ELSE IF dom.succ THEN "succeeded"
    ELSE IF dom.proc THEN "pending"
    ELSE "succeeded"

\* One tick of waitForVideoUploadCompletion; a rejected query is caught
\* inside the loop ("caught": sleep 1 s and go on).
UploadTick(dom) ==
    IF dom.q = "throws" THEN "caught"
    ELSE IF ~dom.proc /\ dom.button = "enabled" THEN "succeeded"
    ELSE IF dom.succ THEN "succeeded"
    ELSE "pending"

Tick(kind, dom) ==
    CASE kind = "processing" -> ProcessingTick(dom)
      [] kind = "upload"     -> UploadTick(dom)
      [] kind = "publish"    -> PublishTick(dom)
      [] OTHER               -> VideoPublishTick(dom)

\* A loop whose clock does not advance between two ticks.
TickSleepStandsStill(kind, r) == 0

\* The waits made with waitForCondition (waitForVideoProcessing,
\* waitForVideoPublishCompletion); the other two have loops of their own.
ConditionWaits == {"processing", "videoPublish"}

\* The sleep that ends a tick that did not settle the wait.
TickSleep(kind, r) ==
    CASE kind = "processing" -> ProcessingCheck
      [] kind = "upload"     -> IF r = "caught" THEN UploadErrorSleep ELSE UploadPollSleep
      [] kind = "publish"    -> PublishPollSleep
      [] OTHER               -> VideoPublishCheckInterval(FALSE)

\* No signal of any kind, and the operation page still showing.
Quiet(dom) ==
    /\ dom.q = "ok"
    /\ ~dom.succ /\ ~dom.err /\ ~dom.proc /\ dom.page
    /\ dom.toast = NoToast

\* `while (Date.now() - startTime < timeout)` is false
WaitExpired(kind, elapsed) == elapsed >= WaitTimeout(kind)

\* A wait begins: startTime = Date.now()
StartWait(kind) ==
    /\ wKind' = kind
    /\ wPhase' = "poll"
    /\ wElapsed' = 0
    /\ wDom' = NoDom
    /\ wOutcome' = "none"
    /\ wAllQuiet' = TRUE
    /\ wSawProc' = FALSE
    /\ wSlept' = 0

\* The caller has taken the wait's outcome: the tick data is dropped.
EndWait ==
    /\ wPhase' = "idle"
    /\ wElapsed' = 0
    /\ wDom' = NoDom
    /\ wSlept' = 0
    /\ UNCHANGED <<wKind, wOutcome, wAllQuiet, wSawProc>>

\* The loop head lets a tick start and the page is queried.
Wait_Observe ==
    /\ wPhase = "poll"
    /\ ~WaitExpired(wKind, wElapsed)
    /\ wDom' \in WaitDoms(wKind)
    /\ wPhase' = "observed"
    /\ wAllQuiet' = (wAllQuiet /\ Quiet(wDom'))
    /\ UNCHANGED <<wKind, wElapsed, wOutcome, wSawProc, wSlept>>
    /\ UNCHANGED <<op, pc, outcome, commonVars, outsidePublish, publishVars>>

\* The tick is decided: the wait ends, or sleeps and loops.
Wait_Evaluate ==
    /\ wPhase = "observed"
    /\ IF Tick(wKind, wDom) \in {"pending", "caught"}
       THEN /\ wPhase' = "poll"
            /\ wElapsed' = wElapsed + TickSleep(wKind, Tick(wKind, wDom))
            /\ wSlept' = IF wKind \in ConditionWaits
                         THEN TickSleep(wKind, Tick(wKind, wDom)) ELSE wSlept
            /\ wSawProc' = (wSawProc \/ wDom.proc)
            /\ wDom' = NoDom
            /\ UNCHANGED wOutcome
       ELSE /\ wPhase' = "resolved"
            /\ wOutcome' = Tick(wKind, wDom)
            /\ UNCHANGED <<wElapsed, wDom, wSawProc, wSlept>>
    /\ UNCHANGED <<wKind, wAllQuiet>>
    /\ UNCHANGED <<op, pc, outcome, commonVars, outsidePublish, publishVars>>

\* The loop head finds the window elapsed.
Wait_Expire ==
    /\ wPhase = "poll"
    /\ WaitExpired(wKind, wElapsed)
    /\ wPhase' = "resolved"
    /\ wOutcome' = "timeout"
    /\ UNCHANGED <<wKind, wElapsed, wDom, wAllQuiet, wSawProc, wSlept>>
    /\ UNCHANGED <<op, pc, outcome, commonVars, outsidePublish, publishVars>>

----------------------------------------------------------------------------
(* PublishService: input validation                                         *)

NoErr == [error |-> "", message |-> ""]
Err(class, message) == [error |-> class, message |-> message]

\* A title is described by whether title.trim() is empty and by its display
\* width; content by whether content.trim() is empty; the media paths by
\* their number and by the defect of the first defective file, if any.
Titles ==
    { [blank |-> TRUE,  width |-> 1],
      [blank |-> FALSE, width |-> TitleMaxWidth],
      [blank |-> FALSE, width |-> TitleMaxWidth + 1] }

Contents == { [blank |-> TRUE], [blank |-> FALSE] }

MediaCounts == (0..MaxMedia) \cup {ImageLimit + 1}

ImageDefects == {"none", "download", "missing", "notfile", "ext"}
VideoDefects == {"none", "missing", "notfile", "ext", "size"}

MediaOf(type) ==
    { [n |-> 0, bad |-> "none"] } \cup
    [n : MediaCounts \ {0}, bad : IF type = "image" THEN ImageDefects ELSE VideoDefects]

PublishInputs ==
    UNION { [type : {t}, title : Titles, content : Contents, media : MediaOf(t),
             tags : {"", "tag"}] : t \in {"image", "video"} }

\* assertTitleWidthValid (shared/title-validator)
TitleWidthError(title) ==
    IF title.width > TitleMaxWidth THEN Err("PublishError", "Title width exceeds the maximum")
    ELSE NoErr

\* validateContentInputs
ValidateContentInputs(in) ==
    IF in.title.blank THEN Err("PublishError", "title cannot be empty")
    ELSE IF in.content.blank THEN Err("PublishError", "content cannot be empty")
    ELSE IF in.media.n = 0 THEN Err("PublishError", "paths are required")
    ELSE IF in.type = "image" /\ in.media.n > ImageLimit
         THEN Err("PublishError", "Maximum 18 images allowed for image posts")
    ELSE IF in.type = "video" /\ in.media.n # 1
         THEN Err("PublishError", "Video publishing requires exactly one video file")
    ELSE NoErr

\* validateAndResolveImagePaths: processImagePaths, then the per-file checks
\* in list order, then the count limit
ValidateAndResolveImagePaths(media) ==
    IF media.bad = "download" THEN Err("Error", "Failed to download image")
    ELSE IF media.bad = "missing" THEN Err("InvalidImageError", "Image file not found")
    ELSE IF media.bad = "notfile" THEN Err("InvalidImageError", "Path is not a file")
    ELSE IF media.bad = "ext" THEN Err("InvalidImageError", "Unsupported image format")
    ELSE IF media.n > ImageLimit THEN Err("PublishError", "Maximum 18 images allowed")
    ELSE NoErr

\* publishNote, lines 137-155
PublishNoteValidation(in) ==
    IF in.title.blank THEN Err("PublishError", "Note title cannot be empty")
    ELSE IF TitleWidthError(in.title) # NoErr THEN TitleWidthError(in.title)
    ELSE IF in.content.blank THEN Err("PublishError", "Note content cannot be empty")
    ELSE IF in.media.n = 0 THEN Err("PublishError", "At least one image is required")
    ELSE ValidateAndResolveImagePaths(in.media)

\* validateAndResolveVideoPath without its file-size check
ValidateAndResolveVideoPathNoSizeCheck(media) ==
    IF media.bad = "missing" THEN Err("PublishError", "Video file not found")
    ELSE IF media.bad = "notfile" THEN Err("PublishError", "Path is not a file")
    ELSE IF media.bad = "ext" THEN Err("PublishError", "Unsupported video format")
    ELSE NoErr

\* validateAndResolveVideoPath
ValidateAndResolveVideoPath(media) ==
    IF media.bad = "missing" THEN Err("PublishError", "Video file not found")
    ELSE IF media.bad = "notfile" THEN Err("PublishError", "Path is not a file")
    ELSE IF media.bad = "ext" THEN Err("PublishError", "Unsupported video format")
    ELSE IF media.bad = "size" THEN Err("PublishError", "Video file too large")
    ELSE NoErr

\* publishVideo, lines 1461-1465: validateVideoInputs, validateAndResolveVideoPath
PublishVideoValidation(in) ==
    IF in.title.blank THEN Err("PublishError", "Video title cannot be empty")
    ELSE IF TitleWidthError(in.title) # NoErr THEN TitleWidthError(in.title)
    ELSE IF in.content.blank THEN Err("PublishError", "Video content cannot be empty")
    ELSE IF in.media.n = 0 THEN Err("PublishError", "Video path is required")
    ELSE ValidateAndResolveVideoPath(in.media)

\* Everything publishContent checks before it asks for a page.
ValidationError(in) ==
    IF ValidateContentInputs(in) # NoErr THEN ValidateContentInputs(in)
    ELSE IF in.type = "image" THEN PublishNoteValidation(in)
    ELSE PublishVideoValidation(in)

Valid(in) == ValidationError(in) = NoErr

\* navigateWithRetry throws its BrowserNavigationError with the last
\* underlying error as originalError, which toJSON puts into the context.
NavigationErrorContext == {"originalError"}

\* publishNote / publishVideo: catch (error) { logger.error(...); throw error }
Thrown(e) ==
    [status |-> "thrown", error |-> e.error, message |-> e.message,
     context |-> IF e.error = "BrowserNavigationError" THEN NavigationErrorContext
                 ELSE XHSErrorContext(ThrowSiteContext)]

\* A PublishResult that reports failure when no note id was extracted.
PublishResultNeedsNoteId(in, noteId) ==
    [status |-> "ok", success |-> noteId # "", title |-> in.title, content |-> in.content,
     imageCount |-> IF in.type = "image" THEN in.media.n ELSE 0,
     tags |-> in.tags, noteId |-> noteId]

\* A PublishResult that counts the video file as an image.
PublishResultCountsVideo(in, noteId) ==
    [status |-> "ok", success |-> TRUE, title |-> in.title, content |-> in.content,
     imageCount |-> in.media.n, tags |-> in.tags, noteId |-> noteId]

\* The PublishResult of a successful publish.
PublishResult(in, noteId) ==
    [status |-> "ok", success |-> TRUE, title |-> in.title, content |-> in.content,
     imageCount |-> IF in.type = "image" THEN in.media.n ELSE 0,
     tags |-> in.tags, noteId |-> noteId]

----------------------------------------------------------------------------
(* PublishService: publishContent -> publishNote / publishVideo             *)

\* A failed step sends the flow back to navigation, once.
StepFailsRetriesOnce(e) ==
    IF pNavs < 2
    THEN pErr' = NoErr /\ pc' = "navigate"
    ELSE pErr' = e /\ pc' = "finally"

\* A step of the flow is over: it is recorded when it returned, not when it threw.
StepReturned(step) == pSteps' = IF pErr' = NoErr THEN Append(pSteps, step) ELSE pSteps

\* A step of the flow, run on the open page, threw e: the finally block is next.
StepFails(e) ==
    /\ pErr' = e
    /\ pc' = "finally"

\* publishContent(type, title, content, mediaPaths, tags): the checks of
\* validateContentInputs, publishNote / publishVideo and the path resolvers
Publish_Validate ==
    /\ op = "publish"
    /\ pc = "validate"
    /\ IF Valid(pIn)
       THEN /\ pc' = "create"
            /\ UNCHANGED outcome
       ELSE /\ pc' = "done"
            /\ outcome' = Thrown(ValidationError(pIn))
    /\ UNCHANGED <<op, commonVars, outsidePublish, publishVars, waitVars>>

\* const page = await createPage(false, browserPath, true)
Publish_CreatePage ==
    /\ op = "publish"
    /\ pc = "create"
    /\ \/ /\ CreatePage(pageCount + 1, browserPath)
          /\ pPage' = pageCount + 1
          /\ pc' = "navigate"
          /\ UNCHANGED outcome
       \/ /\ pc' = "done"
          /\ outcome' = Thrown(Err("BrowserLaunchError", "Failed to launch browser"))
          /\ UNCHANGED <<pPage, commonVars>>
    /\ UNCHANGED <<op, outsidePublish, waitVars,
                   pIn, pSteps, pErr, pNoteId, pNavs, pClicks, pSaves, xPage, xRan>>

\* navigateWithRetry(page, creatorPublishUrl / creatorVideoPublishUrl)
Publish_Navigate ==
    /\ op = "publish"
    /\ pc = "navigate"
    /\ pNavs' = pNavs + 1
    /\ \/ pc' = "tab" /\ UNCHANGED pErr
       \/ StepFails(Err("BrowserNavigationError", "Navigation failed"))
    /\ StepReturned("navigate")
    /\ UNCHANGED <<op, outcome, commonVars, outsidePublish, waitVars,
                   pIn, pPage, pNoteId, pClicks, pSaves, xPage, xRan>>

\* image: clickUploadTab (its errors are only logged), the page-state probe and
\*        the upload-container waits; video: waitForSelector on the upload UI,
\*        clickVideoUploadTab (its errors are only logged)
Publish_SelectTab ==
    /\ op = "publish"
    /\ pc = "tab"
    /\ \/ pc' = "upload" /\ UNCHANGED pErr
       \/ StepFails(IF pIn.type = "image"
                    THEN Err("PublishError", "Could not find upload container on publish page")
                    ELSE Err("TimeoutError", "Waiting for selector failed"))
    /\ StepReturned("tab")
    /\ UNCHANGED <<op, outcome, commonVars, outsidePublish, waitVars,
                   pIn, pPage, pNoteId, pNavs, pClicks, pSaves, xPage, xRan>>

\* uploadImages(page, resolvedPaths)
Publish_UploadImages ==
    /\ op = "publish"
    /\ pc = "upload"
    /\ pIn.type = "image"
    /\ \/ pc' = "title" /\ UNCHANGED pErr
       \/ StepFails(Err("PublishError", "Could not find file upload input on page"))
       \/ StepFails(Err("PublishError", "Failed to upload images"))
    /\ StepReturned("upload")
    /\ UNCHANGED <<op, outcome, commonVars, outsidePublish, waitVars,
                   pIn, pPage, pNoteId, pNavs, pClicks, pSaves, xPage, xRan>>

\* uploadVideo(page, videoPath) up to the call of waitForVideoProcessing
Publish_UploadVideo ==
    /\ op = "publish"
    /\ pc = "upload"
    /\ pIn.type = "video"
    /\ \/ /\ pc' = "wait_processing"
          /\ StartWait("processing")
          /\ UNCHANGED pErr
       \/ /\ StepFails(Err("PublishError", "Could not find file upload input on video upload page"))
          /\ UNCHANGED waitVars
       \/ /\ StepFails(Err("PublishError", "Failed to upload video"))
          /\ UNCHANGED waitVars
    /\ UNCHANGED <<op, outcome, commonVars, outsidePublish,
                   pIn, pSteps, pPage, pNoteId, pNavs, pClicks, pSaves, xPage, xRan>>

\* waitForVideoProcessing with a catch block that rethrows the timeout.
Publish_VideoProcessedThrowsOnTimeout ==
    /\ op = "publish"
    /\ pc = "wait_processing"
    /\ wPhase = "resolved"
    /\ EndWait
    /\ IF wOutcome = "timeout"
       THEN StepFails(Err("PublishError", "Failed to upload video"))
       ELSE pc' = "title" /\ UNCHANGED pErr
    /\ StepReturned(IF wOutcome = "succeeded" THEN "upload" ELSE "upload_unconfirmed")
    /\ UNCHANGED <<op, outcome, commonVars, outsidePublish,
                   pIn, pPage, pNoteId, pNavs, pClicks, pSaves, xPage, xRan>>

\* waitForVideoProcessing is over: its catch block logs a timeout or a
\* rejected query and uploadVideo returns normally
Publish_VideoProcessed ==
    /\ op = "publish"
    /\ pc = "wait_processing"
    /\ wPhase = "resolved"
    /\ EndWait
    /\ pc' = "title"
    /\ pSteps' = Append(pSteps, IF wOutcome = "succeeded" THEN "upload" ELSE "upload_unconfirmed")
    /\ UNCHANGED <<op, outcome, commonVars, outsidePublish,
                   pIn, pPage, pErr, pNoteId, pNavs, pClicks, pSaves, xPage, xRan>>

\* fillTitle with an error that is only logged: the flow goes on to the content.
Publish_FillTitleLogsError ==
    /\ op = "publish"
    /\ pc = "title"
    /\ pc' = "content"
    /\ pSteps' \in {pSteps, Append(pSteps, "title")}
    /\ UNCHANGED <<op, outcome, commonVars, outsidePublish, waitVars,
                   pIn, pPage, pErr, pNoteId, pNavs, pClicks, pSaves, xPage, xRan>>

\* fillTitle(page, title)
Publish_FillTitle ==
    /\ op = "publish"
    /\ pc = "title"
    /\ \/ pc' = "content" /\ UNCHANGED pErr
       \/ StepFails(Err("PublishError", "Could not find title input field"))
    /\ StepReturned("title")
    /\ UNCHANGED <<op, outcome, commonVars, outsidePublish, waitVars,
                   pIn, pPage, pNoteId, pNavs, pClicks, pSaves, xPage, xRan>>

\* fillContent(page, content)
Publish_FillContent ==
    /\ op = "publish"
    /\ pc = "content"
    /\ \/ pc' = (IF pIn.tags # "" THEN "tags" ELSE "submit") /\ UNCHANGED pErr
       \/ StepFails(Err("PublishError", "Could not find content input field"))
       \/ StepFails(Err("PublishError", "Failed to fill content"))
    /\ StepReturned("content")
    /\ UNCHANGED <<op, outcome, commonVars, outsidePublish, waitVars,
                   pIn, pPage, pNoteId, pNavs, pClicks, pSaves, xPage, xRan>>

\* if (tags) addTags(page, tags): its errors are only logged
Publish_AddTags ==
    /\ op = "publish"
    /\ pc = "tags"
    /\ pc' = "submit"
    /\ pSteps' = Append(pSteps, "tags")
    /\ UNCHANGED <<op, outcome, commonVars, outsidePublish, waitVars,
                   pIn, pPage, pErr, pNoteId, pNavs, pClicks, pSaves, xPage, xRan>>

\* submitPost up to the call of waitForVideoUploadCompletion
Publish_SubmitBegin ==
    /\ op = "publish"
    /\ pc = "submit"
    /\ pc' = "wait_upload"
    /\ StartWait("upload")
    /\ UNCHANGED <<op, outcome, commonVars, outsidePublish, publishVars>>

\* submitPost after waitForVideoUploadCompletion returned (a timeout only
\* logs): find the publish button, click it, then start completion detection
Publish_SubmitClick ==
    /\ op = "publish"
    /\ pc = "wait_upload"
    /\ wPhase = "resolved"
    /\ \/ /\ pClicks' = pClicks + 1
          /\ pc' = "wait_publish"
          /\ StartWait(IF pIn.type = "image" THEN "publish" ELSE "videoPublish")
          /\ UNCHANGED pErr
       \/ /\ StepFails(Err("PublishError", "Could not find the publish button"))
          /\ EndWait
          /\ UNCHANGED pClicks
       \/ /\ StepFails(Err("PublishError", "Failed to click publish button"))
          /\ EndWait
          /\ pClicks' \in {pClicks, pClicks + 1}
    /\ pSteps' = IF pClicks' > pClicks THEN Append(pSteps, "publish") ELSE pSteps
    /\ UNCHANGED <<op, outcome, commonVars, outsidePublish,
                   pIn, pPage, pNoteId, pNavs, pSaves, xPage, xRan>>

\* What completion detection hands to its caller for each way it can end.
CompletionErrorLenientTimeout(kind, how) ==
    CASE how = "succeeded" -> NoErr
      [] how = "timeout"   -> NoErr
      [] how = "failed"    -> Err("PublishError", "Publish failed")
      [] OTHER             -> Err("Error", "Page query rejected")

\* Completion detection that swallows a detected failure.
CompletionErrorIgnoresFailure(kind, how) ==
    CASE how = "succeeded" -> NoErr
      [] how = "failed"    -> NoErr
      [] how = "timeout"   -> Err("PublishError", "Publish completion timeout")
      [] OTHER             -> Err("Error", "Page query rejected")

CompletionError(kind, how) ==
    CASE how = "succeeded" -> NoErr
      [] how = "failed"    -> Err("PublishError", "Publish failed")
      [] how = "timeout"   -> Err("PublishError", "Publish completion timeout")
      [] OTHER             -> Err("Error", "Page query rejected")

\* waitForPublishCompletion / waitForVideoPublishCompletion is over
Publish_CompletionDetected ==
    /\ op = "publish"
    /\ pc = "wait_publish"
    /\ wPhase = "resolved"
    /\ EndWait
    /\ IF CompletionError(wKind, wOutcome) = NoErr
       THEN pc' = "extract" /\ UNCHANGED pErr
       ELSE StepFails(CompletionError(wKind, wOutcome))
    /\ StepReturned("completion")
    /\ UNCHANGED <<op, outcome, commonVars, outsidePublish,
                   pIn, pPage, pNoteId, pNavs, pClicks, pSaves, xPage, xRan>>

\* extractNoteIdFromPage returns the first identifier found: an extractor
\* that found one ends the extraction, one that found none hands over to the
\* next (URL pattern, DOM scan, latest-note listing).
NextExtractorRunsAll(by, id) ==
    CASE by = "url" -> "extract_dom"
      [] by = "dom" -> "extract_listing"
      [] OTHER      -> "save"

NextExtractor(by, id) ==
    IF id # "" THEN "save"
    ELSE CASE by = "url" -> "extract_dom"
           [] by = "dom" -> "extract_listing"
           [] OTHER      -> "save"

Extracted(by, id) == xRan' = Append(xRan, [by |-> by, id |-> id])

\* extractNoteIdFromPage, method 1: the URL pattern
Publish_ExtractNoteId ==
    /\ op = "publish"
    /\ pc = "extract"
    /\ \E id \in {"id", ""} :
          /\ Extracted("url", id)
          /\ pNoteId' = id
          /\ pc' = NextExtractor("url", id)
    /\ UNCHANGED <<op, outcome, commonVars, outsidePublish, waitVars,
                   pIn, pSteps, pPage, pErr, pNavs, pClicks, pSaves, xPage>>

\* extractNoteIdFromPage, method 2: the DOM scan in page.evaluate; a rejected
\* page query is caught by the outer catch, which returns null
Publish_ExtractFromDom ==
    /\ op = "publish"
    /\ pc = "extract_dom"
    /\ \/ \E id \in {"id", ""} :
             /\ Extracted("dom", id)
             /\ pNoteId' = id
             /\ pc' = NextExtractor("dom", id)
       \/ /\ Extracted("dom", "")
          /\ pNoteId' = ""
          /\ pc' = "save"
    /\ UNCHANGED <<op, outcome, commonVars, outsidePublish, waitVars,
                   pIn, pSteps, pPage, pErr, pNavs, pClicks, pSaves, xPage>>

\* extractNoteIdFromPage, method 3: NoteService.getUserNotes(1) opens a page
\* of its own, and is given no browserPath; a failure is caught and yields null
Publish_ListingOpen ==
    /\ op = "publish"
    /\ pc = "extract_listing"
    /\ \/ /\ CreatePage(pageCount + 1, NoBrowserPath)
          /\ xPage' = pageCount + 1
          /\ pc' = "extract_listing_close"
          /\ UNCHANGED <<xRan, pNoteId>>
       \/ /\ Extracted("listing", "")
          /\ pNoteId' = ""
          /\ pc' = NextExtractor("listing", "")
          /\ UNCHANGED <<xPage, commonVars>>
    /\ UNCHANGED <<op, outcome, outsidePublish, waitVars,
                   pIn, pSteps, pPage, pErr, pNavs, pClicks, pSaves>>

\* NoteService.getUserNotes(1) closes its page and returns or throws
Publish_ListingClose ==
    /\ op = "publish"
    /\ pc = "extract_listing_close"
    /\ ClosePage(xPage)
    /\ xPage' = 0
    /\ \E id \in {"id", ""} :
          /\ Extracted("listing", id)
          /\ pNoteId' = id
          /\ pc' = NextExtractor("listing", id)
    /\ UNCHANGED <<op, outcome, outsidePublish, waitVars,
                   pIn, pSteps, pPage, pErr, pNavs, pClicks, pSaves>>

\* await saveCookiesFromPage(page)
Publish_SaveCookies ==
    /\ op = "publish"
    /\ pc = "save"
    /\ pSaves' = pSaves + 1
    /\ \/ pc' = "finally" /\ UNCHANGED pErr
       \/ StepFails(Err("Error", "Failed to save cookies"))
    /\ StepReturned("cookies")
    /\ UNCHANGED <<op, outcome, commonVars, outsidePublish, waitVars,
                   pIn, pPage, pNoteId, pNavs, pClicks, xPage, xRan>>

\* The finally block of publishNote / publishVideo.
PublishFinallySkipsCloseOnError(page, err) ==
    IF err = NoErr THEN ClosePage(page) ELSE UNCHANGED commonVars

PublishFinally(page, err) == ClosePage(page)

\* } finally { await page.close(); } and then the return, or the outer catch
\* that logs and rethrows
Publish_Finally ==
    /\ op = "publish"
    /\ pc = "finally"
    /\ PublishFinally(pPage, pErr)
    /\ pPage' = 0
    /\ outcome' = IF pErr = NoErr THEN PublishResult(pIn, pNoteId) ELSE Thrown(pErr)
    /\ pc' = "done"
    /\ UNCHANGED <<op, outsidePublish, waitVars,
                   pIn, pSteps, pErr, pNoteId, pNavs, pClicks, pSaves, xPage, xRan>>


NextPublish ==
    \/ Publish_Validate
    \/ Publish_CreatePage
    \/ Publish_Navigate
    \/ Publish_SelectTab
    \/ Publish_UploadImages
    \/ Publish_UploadVideo
    \/ Publish_VideoProcessed
    \/ Publish_FillTitle
    \/ Publish_FillContent
    \/ Publish_AddTags
    \/ Publish_SubmitBegin
    \/ Publish_SubmitClick
    \/ Publish_CompletionDetected
    \/ Publish_ExtractNoteId
    \/ Publish_ExtractFromDom
    \/ Publish_ListingOpen
    \/ Publish_ListingClose
    \/ Publish_SaveCookies
    \/ Publish_Finally
    \/ Wait_Observe
    \/ Wait_Evaluate
    \/ Wait_Expire

----------------------------------------------------------------------------
(* UserService: getUserProfile / getUserNoteLinks, resolveProfileUrl,       *)
(* searchUserByXhsNumber                                                    *)

\* The input is a profile URL, an xhslink.com short link, a bare handle
\* (XHS number), or anything else (taken as a user id).
UserInputs == {"profile_url", "short_link", "handle", "other"}

\* What the profile page holds: the note ids listed in __INITIAL_STATE__ and
\* the note ids of the note cards in the DOM, each note at most once in each.
NoteIds == { n.noteId : n \in NoteUniverse }
NoteIdLists ==
    { l \in UNION { [1..n -> NoteIds] : n \in 0..MaxPageNotes } :
        \A i, j \in 1..Len(l) : l[i] = l[j] => i = j }
ProfilePages == [state : NoteIdLists, dom : NoteIdLists]

\* the limits getUserProfile is called with
UserLimits == 1..(MaxPageNotes + 1)

\* extractFromInitialState: every note found is pushed
ExtractFromInitialState(notesList, page) == notesList \o page.state

\* extractFromDOM: a card is pushed unless notesList holds its note id
RECURSIVE ExtractFromDOM(_, _)
ExtractFromDOM(notesList, cards) ==
    IF cards = <<>> THEN notesList
    ELSE ExtractFromDOM(
             IF \E i \in 1..Len(notesList) : notesList[i] = Head(cards)
             THEN notesList ELSE Append(notesList, Head(cards)),
             Tail(cards))

ExtractNotes(notesList, page) ==
    ExtractFromDOM(ExtractFromInitialState(notesList, page), page.dom)

\* while (notesList.length < noteLimit && scrollAttempts < maxScrollAttempts);
\* `more` is the number of scrolls that still report new content.
RECURSIVE ScrollLoop(_, _, _, _, _)
ScrollLoop(notesList, scrollAttempts, more, page, noteLimit) ==
    IF Len(notesList) < noteLimit /\ scrollAttempts < MaxScrollAttempts
    THEN IF more = 0
         THEN ExtractNotes(notesList, page)
         ELSE ScrollLoop(ExtractNotes(notesList, page), scrollAttempts + 1, more - 1,
                         page, noteLimit)
    ELSE notesList

\* getUserNotes(page, limit): notesList.slice(0, noteLimit)
GetUserNotes(page, more, noteLimit) ==
    LET notesList == ScrollLoop(ExtractNotes(<<>>, page), 0, more, page, noteLimit)
    IN  SubSeq(notesList, 1, Min(noteLimit, Len(notesList)))

ProfileReturned == op = "profile" /\ pc = "done" /\ outcome.status = "ok"

\* C26: a profile that getUserProfile returns holds at most `limit` notes and
\* no two of them have the same noteId.
C26_NotesWithinLimitAndDistinct ==
    ProfileReturned =>
        /\ Len(uNotes) <= uLimit
        /\ \A i, j \in 1..Len(uNotes) : uNotes[i] = uNotes[j] => i = j

\* C26: the limit half alone: slice(0, noteLimit) keeps it
C26_NotesWithinLimit == ProfileReturned => Len(uNotes) <= uLimit

\* C26: a returned profile lists the same note twice
C26_DuplicateReturned ==
    /\ ProfileReturned
    /\ \E i, j \in 1..Len(uNotes) : i < j /\ uNotes[i] = uNotes[j]

\* resolveProfileUrl: which branch the input takes
User_Resolve ==
    /\ op \in {"profile", "links"}
    /\ pc = "resolve"
    /\ CASE uIn = "profile_url" -> pc' = "main_create"   /\ uUrl' = "given"
         [] uIn = "short_link"  -> pc' = "short_create"  /\ UNCHANGED uUrl
         [] uIn = "handle"      -> pc' = "direct_create" /\ UNCHANGED uUrl
         [] OTHER               -> pc' = "main_create"   /\ uUrl' = "fallback"
    /\ UNCHANGED <<op, outcome, commonVars, outsideUser, uIn, uLimit, uNotes, uPage, uErr, uPending>>

\* createPage of a helper step: short-link resolution (line 166), the
\* direct-handle probe (line 211), searchUserByXhsNumber (line 260); a
\* failure is caught by the step's own catch block
User_HelperCreate ==
    /\ op \in {"profile", "links"}
    /\ pc \in {"short_create", "direct_create", "search_create"}
    /\ \/ /\ CreatePage(pageCount + 1, browserPath)
          /\ uPage' = pageCount + 1
          /\ pc' = CASE pc = "short_create"  -> "short_body"
                     [] pc = "direct_create" -> "direct_body"
                     [] OTHER                -> "search_body"
          /\ UNCHANGED uUrl
       \/ /\ UNCHANGED <<uPage, commonVars>>
          /\ CASE pc = "short_create"  -> pc' = "invalid_input" /\ uUrl' = ""
               [] pc = "direct_create" -> pc' = "search_create" /\ UNCHANGED uUrl
               [] OTHER                -> pc' = "main_create"   /\ uUrl' = "fallback"
    /\ UNCHANGED <<op, outcome, outsideUser, uIn, uLimit, uNotes, uErr, uPending>>

\* The try block of a helper step: the navigation (page.goto in the
\* short-link and direct-handle steps, navigateWithRetry in the search) and
\* the page queries; it returns a URL, finds nothing, or throws
User_HelperBody ==
    /\ op \in {"profile", "links"}
    /\ pc \in {"short_body", "direct_body", "search_body"}
    /\ \E n \in IF pc = "search_body" THEN NavigateWithRetry ELSE Goto :
          /\ nav' = n
          /\ uPending' \in IF n.ok THEN {"url", "null", "throw"} ELSE {"throw"}
    /\ pc' = CASE pc = "short_body"  -> "short_finally"
               [] pc = "direct_body" -> "direct_finally"
               [] OTHER              -> "search_finally"
    /\ UNCHANGED <<op, outcome, pageVars, outsideUser, uIn, uLimit, uNotes, uPage, uErr, uUrl>>

\* } finally { await page.close(); } of a helper step, then its return value
User_HelperFinally ==
    /\ op \in {"profile", "links"}
    /\ pc \in {"short_finally", "direct_finally", "search_finally"}
    /\ ClosePage(uPage)
    /\ uPage' = 0
    /\ uPending' = "none"
    /\ CASE uPending = "url" ->
              /\ pc' = "main_create"
              /\ uUrl' = "resolved"
         [] pc = "short_finally" /\ uPending # "url" ->
              /\ pc' = "invalid_input"
              /\ uUrl' = ""
         [] pc = "direct_finally" /\ uPending # "url" ->
              /\ pc' = "search_create"
              /\ UNCHANGED uUrl
         [] OTHER ->
              /\ pc' = "main_create"
              /\ uUrl' = "fallback"
    /\ UNCHANGED <<op, outcome, outsideUser, uIn, uLimit, uNotes, uErr>>

\* if (!profileUrl) throw new DownloadError(`Invalid user input`), wrapped by
\* the outer catch
User_InvalidInput ==
    /\ op \in {"profile", "links"}
    /\ pc = "invalid_input"
    /\ outcome' = [status |-> "thrown", error |-> "DownloadError",
                   message |-> <<"Failed to get user data", "Invalid user input">>,
                   context |-> XHSErrorContext(ThrowSiteContext)]
    /\ pc' = "done"
    /\ UNCHANGED <<op, commonVars, outsideUser, userVars>>

\* const page = await createPage(false, browserPath, true)
User_MainCreate ==
    /\ op \in {"profile", "links"}
    /\ pc = "main_create"
    /\ \/ /\ CreatePage(pageCount + 1, browserPath)
          /\ uPage' = pageCount + 1
          /\ pc' = "main_navigate"
          /\ UNCHANGED outcome
       \/ /\ outcome' = [status |-> "thrown", error |-> "DownloadError",
                         message |-> <<"Failed to get user data", "BrowserLaunchError">>,
                         context |-> XHSErrorContext(ThrowSiteContext)]
          /\ pc' = "done"
          /\ UNCHANGED <<uPage, commonVars>>
    /\ UNCHANGED <<op, outsideUser, uIn, uLimit, uNotes, uErr, uUrl, uPending>>

\* navigateWithRetry(page, profileUrl)
User_MainNavigate ==
    /\ op \in {"profile", "links"}
    /\ pc = "main_navigate"
    /\ \E n \in NavigateWithRetry :
          /\ nav' = n
          /\ IF n.ok
             THEN pc' = "main_extract" /\ UNCHANGED uErr
             ELSE pc' = "main_finally" /\ uErr' = <<"BrowserNavigationError">>
    /\ UNCHANGED <<op, outcome, pageVars, outsideUser, uIn, uLimit, uNotes, uPage, uUrl, uPending>>

\* the scroll loop, extractUserData and the note extraction; getUserProfile
\* throws when no user data is found, getUserNoteLinks does not
User_MainExtract ==
    /\ op \in {"profile", "links"}
    /\ pc = "main_extract"
    /\ pc' = "main_finally"
    /\ \/ /\ uErr' = <<>>
          /\ IF op = "profile"
             THEN \/ \E page \in ProfilePages, more \in 0..MaxScrolls :
                       uNotes' = GetUserNotes(page, more, uLimit)
                  \/ uNotes' = <<>>
             ELSE UNCHANGED uNotes
       \/ uErr' = <<"EvaluateError">> /\ UNCHANGED uNotes
       \/ /\ op = "profile"
          /\ uErr' = <<"Failed to extract user data from profile page">>
          /\ UNCHANGED uNotes
    /\ UNCHANGED <<op, outcome, commonVars, outsideUser, uIn, uLimit, uPage, uUrl, uPending>>

\* } finally { await page.close(); } then the return or the wrapping catch
User_MainFinally ==
    /\ op \in {"profile", "links"}
    /\ pc = "main_finally"
    /\ ClosePage(uPage)
    /\ uPage' = 0
    /\ outcome' = IF uErr = <<>>
                  THEN [status |-> "ok"]
                  ELSE [status |-> "thrown", error |-> "DownloadError",
                        message |-> <<"Failed to get user data">> \o uErr,
                        context |-> XHSErrorContext(ThrowSiteContext)]
    /\ pc' = "done"
    /\ UNCHANGED <<op, outsideUser, uIn, uLimit, uNotes, uErr, uUrl, uPending>>

NextUser ==
    \/ User_Resolve
    \/ User_HelperCreate
    \/ User_HelperBody
    \/ User_HelperFinally
    \/ User_InvalidInput
    \/ User_MainCreate
    \/ User_MainNavigate
    \/ User_MainExtract
    \/ User_MainFinally

----------------------------------------------------------------------------
(* Front ends: what the MCP tool handlers and the CLI commands share         *)

\* A request as a front end sees it.  Only what a handler or a command
\* branches on is kept: whether the required parameters are all present, the
\* publish type / title / content length / media, the delete target, the
\* download mode, the limit argument (hasLimit = FALSE: not given) and, for
\* the user commands, how many notes the profile has.
BaseRequest(layer, name) ==
    [layer |-> layer, name |-> name, required |-> TRUE, type |-> "image",
     title |-> [blank |-> FALSE, width |-> TitleMaxWidth],
     contentLen |-> MaxContentLength, media |-> [n |-> 1, bad |-> "none"],
     noteId |-> FALSE, lastPublished |-> FALSE, mode |-> "",
     hasLimit |-> FALSE, limit |-> 0, profileNotes |-> 0, firstN |-> "", tags |-> ""]

NoRequest == BaseRequest("none", "")

NotExited == [exited |-> FALSE, code |-> ExitSuccess]
Exited(code) == [exited |-> TRUE, code |-> code]

NoLogins == [pending |-> 0, ok |-> 0, failed |-> 0, timedOut |-> 0]

\* Publish requests: every type, title, content length and tag list a caller
\* can give.
PublishRequests(layer, name) ==
    { [BaseRequest(layer, name) EXCEPT !.type = t, !.title = ti, !.contentLen = c,
                                       !.tags = tg] :
        t \in {"image", "video", "gif"}, ti \in Titles,
        c \in {MaxContentLength, MaxContentLength + 1}, tg \in {"", "tag"} }

DeleteRequests(layer, name) ==
    { [BaseRequest(layer, name) EXCEPT !.noteId = n, !.lastPublished = l] :
        n \in BOOLEAN, l \in BOOLEAN }

LimitArgs ==
    { [hasLimit |-> FALSE, limit |-> 0] } \cup
    [hasLimit : {TRUE}, limit : {0, 1, DefaultNoteLimit + 1}]

UserRequests(layer, name) ==
    { [BaseRequest(layer, name) EXCEPT !.hasLimit = la.hasLimit, !.limit = la.limit,
                                       !.profileNotes = p, !.mode = m] :
        la \in LimitArgs, p \in {0, 1, MaxProfileNotes},
        m \in IF layer = "cli" THEN {"list", "download", "other"} ELSE {""} }

\* The body of a result object, and what travels between a service call and
\* the code that turns it into a response.
Body(success, error, message, total, status) ==
    [success |-> success, error |-> error, message |-> message,
     total |-> total, status |-> status]

OkBody(success) == Body(success, "", "", 0, "")

NoRes == [kind |-> "none", body |-> OkBody(FALSE), err |-> NoErr]
Returned(body) == [kind |-> "returned", body |-> body, err |-> NoErr]
ThrownRes(e) == [kind |-> "thrown", body |-> OkBody(FALSE), err |-> e]

\* shared/errors.ts: the classes that extend XHSError
XHSErrorClasses ==
    {"XHSError", "AuthenticationError", "LoginTimeoutError", "LoginFailedError",
     "NotLoggedInError", "BrowserError", "BrowserLaunchError", "BrowserNavigationError",
     "FeedError", "FeedNotFoundError", "FeedParsingError", "PublishError",
     "InvalidImageError", "PublishFailedError", "NoteError", "ProfileError",
     "NoteParsingError", "DeleteError", "DownloadError"}

\* error instanceof XHSError
IsXHSError(e) == e.error \in XHSErrorClasses

\* XHSError.toJSON with success left true.
ToJSONKeepsSuccess(e) == Body(TRUE, e.error, e.message, 0, "")

\* XHSError.toJSON (the context object is left out)
ToJSON(e) == Body(FALSE, e.error, e.message, 0, "")

\* const noteLimit = limit || 10  /  parseInt(opts.limit, 10) || 10, with a
\* zero limit kept as zero.
NoteLimitKeepsZero(hasLimit, limit) ==
    IF ~hasLimit THEN DefaultNoteLimit ELSE limit

\* const noteLimit = limit || 10  /  parseInt(opts.limit, 10) || 10
NoteLimit(hasLimit, limit) ==
    IF ~hasLimit \/ limit = 0 THEN DefaultNoteLimit ELSE limit

\* UserService.getUserNotes(page, limit): notesList.slice(0, noteLimit)
ProfileNotesReturned(profileNotes, noteLimit) ==
    [i \in 1..Min(profileNotes, noteLimit) |-> i]

\* The BatchDownloadResult of a batch that attempted `attempted` notes of
\* which `failed` failed.
BatchSummary(attempted, failed) ==
    LET res == [NewBatchResult(attempted) EXCEPT !.downloadedCount = attempted - failed,
                                                 !.failedCount = failed]
    IN  [res EXCEPT !.success = FinalSuccess(res)]

\* batchDownloadNotes(userProfile.notes, { limit: noteLimit, ... }) as one
\* call: the result body for each number of failures.
BatchBodies(notes, noteLimit) ==
    LET attempted == Len(NotesToDownload(notes, noteLimit))
    IN  { Body(BatchSummary(attempted, failed).success, "", "", attempted, "") :
            failed \in {0, 1, attempted} \cap (0..attempted) }

\* The arguments publishContent receives from a front end.
PublishInputOf(req) ==
    [type |-> req.type, title |-> req.title, content |-> [blank |-> FALSE],
     media |-> req.media, tags |-> req.tags]

\* What a service call can do.  Services outside the download, user and
\* publish services return a result whose success field is true or false, or
\* throw a domain error or a plain error; getNoteDetail, downloadNote,
\* getUserProfile and getUserNoteLinks return success or throw DownloadError.
ServiceOutcomes(call) ==
    IF call \in {"DownloadService.getNoteDetail", "DownloadService.downloadNote",
                 "UserService.getUserProfile", "UserService.getUserNoteLinks"}
    THEN { Returned(OkBody(TRUE)), ThrownRes(Err("DownloadError", "Failed")) }
    ELSE { Returned(OkBody(TRUE)), Returned(OkBody(FALSE)),
           ThrownRes(Err("NotLoggedInError", "User not logged in")),
           ThrownRes(Err("Error", "Protocol error")) }

\* publishContent is called: the publish flow starts on the given input.
Front_PublishCall ==
    /\ fLayer \in {"tool", "cli"}
    /\ fPc = "call"
    /\ fReq.name \in {"xhs_publish_content", "publish"}
    /\ op = "front"
    /\ op' = "publish"
    /\ pc' = "validate"
    /\ pIn' = PublishInputOf(fReq)
    /\ pSteps' = <<>>
    /\ xRan' = <<>>
    /\ fCalls' = Append(fCalls, "PublishService.publishContent")
    /\ fPc' = "await_publish"
    /\ UNCHANGED <<outcome, commonVars, outsidePublishNoFront, waitVars,
                   pPage, pErr, pNoteId, pNavs, pClicks, pSaves, xPage>>
    /\ UNCHANGED <<fLayer, fReq, fRes, fOut, fExit, fServed, lLogin>>

\* publishContent returned or threw.
Front_PublishReturn ==
    /\ fPc = "await_publish"
    /\ op = "publish"
    /\ pc = "done"
    /\ op' = "front"
    /\ fRes' = IF outcome.status = "ok"
               THEN Returned(OkBody(TRUE))
               ELSE ThrownRes(Err(outcome.error, outcome.message))
    /\ fPc' = IF outcome.status = "ok" THEN "respond" ELSE "catch"
    /\ UNCHANGED <<pc, outcome, serviceVars>>
    /\ UNCHANGED <<fLayer, fReq, fOut, fExit, fCalls, fServed, lLogin>>

----------------------------------------------------------------------------
(* ToolHandlers: handleToolRequest and the handlers it dispatches to         *)

ToolNames ==
    {"xhs_auth_login", "xhs_auth_logout", "xhs_auth_status", "xhs_discover_feeds",
     "xhs_search_note", "xhs_get_note_detail", "xhs_comment_on_note",
     "xhs_publish_content", "xhs_get_user_notes", "xhs_delete_note",
     "xhs_download_note", "xhs_get_user_profile", "xhs_download_user_notes"}

\* The tools whose handler starts with validateRequiredParams
ToolsWithRequiredParams ==
    {"xhs_search_note", "xhs_get_note_detail", "xhs_comment_on_note",
     "xhs_publish_content", "xhs_download_note", "xhs_get_user_profile",
     "xhs_download_user_notes"}

\* Every request but publish: what a client sends while a login is pending.
FollowUpRequests ==
    { BaseRequest("tool", n) : n \in (ToolNames \cup {"xhs_unknown"}) \ {"xhs_publish_content"} }
    \cup { [BaseRequest("tool", n) EXCEPT !.required = FALSE] :
             n \in ToolsWithRequiredParams \ {"xhs_publish_content"} }
    \cup DeleteRequests("tool", "xhs_delete_note")
    \cup { [BaseRequest("tool", "xhs_download_note") EXCEPT !.mode = m] :
             m \in {"detail", "download", "other"} }
    \cup UserRequests("tool", "xhs_get_user_profile")
    \cup UserRequests("tool", "xhs_download_user_notes")

ToolRequests ==
    FollowUpRequests
    \cup PublishRequests("tool", "xhs_publish_content")
    \cup { [BaseRequest("tool", "xhs_publish_content") EXCEPT !.required = FALSE] }

\* validateRequiredParams (shared/utils): a missing parameter throws.
MissingParamErrors ==
    { Err("Error", "Missing required parameter"),
      Err("XHSError", "Missing required parameter") }

\* handleDeleteNote: which NoteService operation a delete request selects,
\* with a request naming no target treated as last published.
DeleteNoteTargetDefaultsToLast(noteId, lastPublished) ==
    IF lastPublished \/ ~noteId THEN "NoteService.deleteLastPublishedNote"
    ELSE "NoteService.deleteNote"

\* handleDeleteNote with its two tests in the other order: a supplied note id
\* takes precedence over last_published.
DeleteNoteTargetPrefersId(noteId, lastPublished) ==
    IF noteId THEN "NoteService.deleteNote"
    ELSE IF lastPublished THEN "NoteService.deleteLastPublishedNote"
    ELSE ""

\* handleDeleteNote / usernote delete: which NoteService operation a delete
\* request selects; "" when it names none.
DeleteNoteTarget(noteId, lastPublished) ==
    IF lastPublished THEN "NoteService.deleteLastPublishedNote"
    ELSE IF noteId THEN "NoteService.deleteNote"
    ELSE ""

\* mode = 'detail' unless given
DownloadMode(req) == IF req.mode = "" THEN "detail" ELSE req.mode

\* What a handler throws before it calls a service; NoErr when it goes on.
\* (validateRequiredParams is handled by the action.)
HandlerPrecheck(req) ==
    CASE req.name = "xhs_publish_content" ->
            IF req.type \notin {"image", "video"}
            THEN Err("Error", "Content type must be image or video")
            ELSE IF TitleWidthError(req.title) # NoErr THEN TitleWidthError(req.title)
            ELSE IF req.contentLen > MaxContentLength
            THEN Err("Error", "Content must be 1000 characters or less")
            ELSE NoErr
      [] req.name = "xhs_delete_note" ->
            IF DeleteNoteTarget(req.noteId, req.lastPublished) = ""
            THEN Err("Error", "Either note_id or last_published must be specified")
            ELSE NoErr
      [] req.name = "xhs_download_note" ->
            IF DownloadMode(req) \notin {"detail", "download"}
            THEN Err("Error", "Invalid mode")
            ELSE NoErr
      [] OTHER -> NoErr

\* The service operation a handler calls for a request.
ToolServiceCall(req) ==
    CASE req.name = "xhs_auth_logout"      -> "AuthService.logout"
      [] req.name = "xhs_auth_status"      -> "AuthService.checkStatus"
      [] req.name = "xhs_discover_feeds"   -> "FeedService.getFeedList"
      [] req.name = "xhs_search_note"      -> "FeedService.searchFeeds"
      [] req.name = "xhs_get_note_detail"  -> "FeedService.getFeedDetail"
      [] req.name = "xhs_comment_on_note"  -> "FeedService.commentOnFeed"
      [] req.name = "xhs_get_user_notes"   -> "NoteService.getUserNotes"
      [] req.name = "xhs_delete_note"      -> DeleteNoteTarget(req.noteId, req.lastPublished)
      [] req.name = "xhs_download_note"    ->
            IF DownloadMode(req) = "detail" THEN "DownloadService.getNoteDetail"
            ELSE "DownloadService.downloadNote"
      [] req.name = "xhs_get_user_profile" -> "UserService.getUserProfile"
      [] OTHER -> ""

\* createMcpToolResponse / createMcpErrorResponse (shared/utils)
McpToolResponse(body) == [kind |-> "tool_response", body |-> body]
McpErrorResponse(e) == [kind |-> "error_response", body |-> Body(FALSE, "", e.message, 0, "error")]

\* handleAuthLogin's response, were it built from the state of the login.
AuthLoginResponseAwaitsLogin(logins) ==
    McpToolResponse(Body(logins.pending = 0, "", "Login finished", 0,
                         IF logins.pending = 0 THEN "logged_in" ELSE "login_started"))

\* handleAuthLogin's response: a literal, whatever the login does.
AuthLoginResponse(logins) ==
    McpToolResponse(Body(TRUE, "", "Login process started", 0, "login_started"))

\* handleToolRequest's catch block
CatchResponse(e) ==
    IF IsXHSError(e) THEN McpToolResponse(ToJSON(e)) ELSE McpErrorResponse(e)

toolUnchanged == <<op, pc, outcome, serviceVars, fLayer, fExit, fServed>>

\* switch (name): an unknown name throws, a known one enters its handler.
Tool_Dispatch ==
    /\ fLayer = "tool"
    /\ fPc = "dispatch"
    /\ IF fReq.name \in ToolNames
       THEN /\ fPc' = "handle"
            /\ UNCHANGED fRes
       ELSE /\ fPc' = "catch"
            /\ fRes' = ThrownRes(Err("Error", "Unknown tool"))
    /\ UNCHANGED <<toolUnchanged, fReq, fOut, fCalls, lLogin>>

\* handleAuthLogin: start the login, attach its catch, return the response.
Tool_AuthLogin ==
    /\ fLayer = "tool"
    /\ fPc = "handle"
    /\ fReq.name = "xhs_auth_login"
    /\ lLogin' = [lLogin EXCEPT !.pending = @ + 1]
    /\ fCalls' = Append(fCalls, "AuthService.login")
    /\ fOut' = Append(fOut, AuthLoginResponse(lLogin'))
    /\ fPc' = "resolved"
    /\ UNCHANGED <<toolUnchanged, fReq, fRes>>

\* The checks a handler makes before its service call.
Tool_Precheck ==
    /\ fLayer = "tool"
    /\ fPc = "handle"
    /\ fReq.name # "xhs_auth_login"
    /\ IF fReq.name \in ToolsWithRequiredParams /\ ~fReq.required
       THEN /\ \E e \in MissingParamErrors : fRes' = ThrownRes(e)
            /\ fPc' = "catch"
       ELSE IF HandlerPrecheck(fReq) # NoErr
       THEN /\ fRes' = ThrownRes(HandlerPrecheck(fReq))
            /\ fPc' = "catch"
       ELSE /\ fPc' = "call"
            /\ UNCHANGED fRes
    /\ UNCHANGED <<toolUnchanged, fReq, fOut, fCalls, lLogin>>

\* const result = await this.<service>.<operation>(...)
Tool_Call ==
    /\ fLayer = "tool"
    /\ fPc = "call"
    /\ ToolServiceCall(fReq) # ""
    /\ fCalls' = Append(fCalls, ToolServiceCall(fReq))
    /\ \E r \in ServiceOutcomes(ToolServiceCall(fReq)) :
          /\ fRes' = r
          /\ fPc' = IF r.kind = "thrown" THEN "catch" ELSE "respond"
    /\ UNCHANGED <<toolUnchanged, fReq, fOut, lLogin>>

\* handleDownloadUserNotes: getUserProfile(input, noteLimit), then the
\* "no notes" result when the profile came back empty.
Tool_GetProfileForDownload ==
    /\ fLayer = "tool"
    /\ fPc = "call"
    /\ fReq.name = "xhs_download_user_notes"
    /\ fCalls' = Append(fCalls, "UserService.getUserProfile")
    /\ LET notes == ProfileNotesReturned(fReq.profileNotes, NoteLimit(fReq.hasLimit, fReq.limit))
       IN  \/ /\ fRes' = ThrownRes(Err("DownloadError", "Failed to get user profile"))
              /\ fPc' = "catch"
           \/ /\ Len(notes) = 0
              /\ fRes' = Returned(Body(FALSE, "", "No notes found for this user", 0, ""))
              /\ fPc' = "respond"
           \/ /\ Len(notes) > 0
              /\ fRes' = Returned(Body(TRUE, "", "", Len(notes), ""))
              /\ fPc' = "batch"
    /\ UNCHANGED <<toolUnchanged, fReq, fOut, lLogin>>

\* handleDownloadUserNotes: batchDownloadNotes(userProfile.notes, { limit: noteLimit })
Tool_BatchDownload ==
    /\ fLayer = "tool"
    /\ fPc = "batch"
    /\ fCalls' = Append(fCalls, "DownloadService.batchDownloadNotes")
    /\ \E b \in BatchBodies([i \in 1..fRes.body.total |-> i],
                            NoteLimit(fReq.hasLimit, fReq.limit)) :
          fRes' = Returned(b)
    /\ fPc' = "respond"
    /\ UNCHANGED <<toolUnchanged, fReq, fOut, lLogin>>

\* return createMcpToolResponse(result)
Tool_Respond ==
    /\ fLayer = "tool"
    /\ fPc = "respond"
    /\ fOut' = Append(fOut, McpToolResponse(fRes.body))
    /\ fPc' = "resolved"
    /\ UNCHANGED <<toolUnchanged, fReq, fRes, fCalls, lLogin>>

\* catch (error) { ... }
Tool_Catch ==
    /\ fLayer = "tool"
    /\ fPc = "catch"
    /\ fOut' = Append(fOut, CatchResponse(fRes.err))
    /\ fPc' = "resolved"
    /\ UNCHANGED <<toolUnchanged, fReq, fRes, fCalls, lLogin>>

\* The client's next request, sent while the login it started is in progress
\* or over.
Tool_Next ==
    /\ fLayer = "tool"
    /\ fPc = "resolved"
    /\ fReq.name = "xhs_auth_login"
    /\ fServed < MaxRequests
    /\ fReq' \in FollowUpRequests
    /\ fServed' = fServed + 1
    /\ fPc' = "dispatch"
    /\ fRes' = NoRes
    /\ fOut' = <<>>
    /\ fCalls' = <<>>
    /\ UNCHANGED <<op, pc, outcome, serviceVars, fLayer, fExit, lLogin>>

loginUnchanged == <<op, pc, outcome, serviceVars, fLayer, fReq, fPc, fRes, fOut, fExit, fCalls, fServed>>

\* The background login resolved.
Login_Succeed ==
    /\ lLogin.pending > 0
    /\ lLogin' = [lLogin EXCEPT !.pending = @ - 1, !.ok = @ + 1]
    /\ UNCHANGED loginUnchanged

\* The background login rejected with LoginFailedError: its catch logs it.
Login_Fail ==
    /\ lLogin.pending > 0
    /\ lLogin' = [lLogin EXCEPT !.pending = @ - 1, !.failed = @ + 1]
    /\ UNCHANGED loginUnchanged

\* The background login rejected with LoginTimeoutError: its catch logs it.
Login_Timeout ==
    /\ lLogin.pending > 0
    /\ lLogin' = [lLogin EXCEPT !.pending = @ - 1, !.timedOut = @ + 1]
    /\ UNCHANGED loginUnchanged

NextTool ==
    \/ Tool_Dispatch
    \/ Tool_AuthLogin
    \/ Tool_Precheck
    \/ Tool_Call
    \/ Tool_GetProfileForDownload
    \/ Tool_BatchDownload
    \/ Tool_Respond
    \/ Tool_Catch
    \/ Tool_Next
    \/ Login_Succeed
    \/ Login_Fail
    \/ Login_Timeout

----------------------------------------------------------------------------
(* CLI: the command actions and CLIUtils                                     *)

CliCommands ==
    {"login", "logout", "status", "feeds", "search", "usernote list",
     "usernote delete", "comment", "publish", "download", "user", "user-links"}

\* Command lines that reach their action: commander has accepted the options.
CliRequests ==
    { BaseRequest("cli", n) : n \in {"login", "logout", "status", "feeds", "search",
                                     "usernote list", "comment"} }
    \cup DeleteRequests("cli", "usernote delete")
    \cup PublishRequests("cli", "publish")
    \cup { [BaseRequest("cli", "download") EXCEPT !.mode = m] :
             m \in {"detail", "download", "other"} }
    \cup UserRequests("cli", "user")
    \cup { [BaseRequest("cli", "user-links") EXCEPT !.firstN = f] :
             f \in {"", "valid", "invalid"} }

\* process.stdout.write(json); process.exit(exitCode)
WriteJson(output, exitCode) ==
    [out |-> [kind |-> "json", body |-> output], exit |-> Exited(exitCode)]

\* printSuccess: a result that has a success field is printed as it is.
\* (Every result of the commands modelled here has one.)
PrintSuccess(result) == WriteJson(result, ExitSuccess)

\* printError: { success: false, message, code, status: 'error' }, exit 1
PrintError(e) == WriteJson(Body(FALSE, "", e.message, 0, "error"), ExitFailure)

\* console.log(...)
TextLine(what) == [kind |-> "text", body |-> Body(FALSE, "", what, 0, "")]

\* What a command action does before its service call: the error it hands to
\* printError, "help" for the usage text, or NoErr when it goes on.
CliPrecheck(req) ==
    CASE req.name = "publish" ->
            IF req.type \notin {"image", "video"}
            THEN Err("Error", "Type must be image or video") ELSE NoErr
      [] req.name = "usernote delete" ->
            IF DeleteNoteTarget(req.noteId, req.lastPublished) = ""
            THEN Err("help", "Usage: xhs-mcp usernote delete [options]") ELSE NoErr
      [] req.name = "download" ->
            IF req.mode \notin {"detail", "download"}
            THEN Err("Error", "Mode must be detail or download") ELSE NoErr
      [] req.name = "user-links" ->
            IF req.firstN = "invalid"
            THEN Err("Error", "First N value must be a positive integer") ELSE NoErr
      [] OTHER -> NoErr

\* The service operation a command calls.
CliServiceCall(req) ==
    CASE req.name = "login"           -> "AuthService.login"
      [] req.name = "logout"          -> "AuthService.logout"
      [] req.name = "status"          -> "AuthService.checkStatus"
      [] req.name = "feeds"           -> "FeedService.getFeedList"
      [] req.name = "search"          -> "FeedService.searchFeeds"
      [] req.name = "usernote list"   -> "NoteService.getUserNotes"
      [] req.name = "usernote delete" -> DeleteNoteTarget(req.noteId, req.lastPublished)
      [] req.name = "comment"         -> "FeedService.commentOnFeed"
      [] req.name = "download"        ->
            IF req.mode = "detail" THEN "DownloadService.getNoteDetail"
            ELSE "DownloadService.downloadNote"
      [] req.name = "user-links"      -> "UserService.getUserNoteLinks"
      [] OTHER -> ""

cliUnchanged == <<op, pc, outcome, serviceVars, fLayer, fReq, fServed, lLogin>>

\* The start of a command action: its own argument checks.
Cli_Action ==
    /\ fLayer = "cli"
    /\ fPc = "action"
    /\ LET e == CliPrecheck(fReq)
       IN  IF e = NoErr
           THEN /\ fPc' = "call"
                /\ UNCHANGED fRes
           ELSE IF e.error = "help"
           THEN /\ fPc' = "help"
                /\ UNCHANGED fRes
           ELSE /\ fPc' = "catch"
                /\ fRes' = ThrownRes(e)
    /\ UNCHANGED <<cliUnchanged, fOut, fExit, fCalls>>

\* const result = await <service>.<operation>(...); user-links hands a result
\* whose success is false to printError.
Cli_Call ==
    /\ fLayer = "cli"
    /\ fPc = "call"
    /\ CliServiceCall(fReq) # ""
    /\ fCalls' = Append(fCalls, CliServiceCall(fReq))
    /\ \E r \in ServiceOutcomes(CliServiceCall(fReq)) :
          IF r.kind = "returned" /\ fReq.name = "user-links" /\ ~r.body.success
          THEN /\ fRes' = ThrownRes(Err("Error", "Failed to get user note links"))
               /\ fPc' = "catch"
          ELSE /\ fRes' = r
               /\ fPc' = IF r.kind = "thrown" THEN "catch" ELSE "respond"
    /\ UNCHANGED <<cliUnchanged, fOut, fExit>>

\* user: getUserProfile(input, limit), then the branch on the mode.
Cli_GetProfile ==
    /\ fLayer = "cli"
    /\ fPc = "call"
    /\ fReq.name = "user"
    /\ fCalls' = Append(fCalls, "UserService.getUserProfile")
    /\ LET notes == ProfileNotesReturned(fReq.profileNotes, NoteLimit(fReq.hasLimit, fReq.limit))
       IN  \/ /\ fRes' = ThrownRes(Err("DownloadError", "Failed to get user profile"))
              /\ fPc' = "catch"
           \/ /\ fReq.mode = "list"
              /\ fRes' = Returned(Body(TRUE, "", "", Len(notes), ""))
              /\ fPc' = "respond"
           \/ /\ fReq.mode = "download"
              /\ fRes' = Returned(Body(TRUE, "", "", Len(notes), ""))
              /\ fPc' = "batch"
           \/ /\ fReq.mode \notin {"list", "download"}
              /\ fRes' = ThrownRes(Err("Error", "Mode must be list or download"))
              /\ fPc' = "catch"
    /\ UNCHANGED <<cliUnchanged, fOut, fExit>>

\* user -m download: batchDownloadNotes(result.notes, { limit, onProgress });
\* onProgress logs one line for every note attempted.
Cli_BatchDownload ==
    /\ fLayer = "cli"
    /\ fPc = "batch"
    /\ fCalls' = Append(fCalls, "DownloadService.batchDownloadNotes")
    /\ \E b \in BatchBodies([i \in 1..fRes.body.total |-> i],
                            NoteLimit(fReq.hasLimit, fReq.limit)) :
          /\ fRes' = Returned(b)
          /\ fOut' = fOut \o [i \in 1..b.total |-> TextLine("Downloading")]
    /\ fPc' = "respond"
    /\ UNCHANGED <<cliUnchanged, fExit>>

\* utils.printSuccess(result)
Cli_PrintSuccess ==
    /\ fLayer = "cli"
    /\ fPc = "respond"
    /\ fOut' = Append(fOut, PrintSuccess(fRes.body).out)
    /\ fExit' = PrintSuccess(fRes.body).exit
    /\ fPc' = "exited"
    /\ UNCHANGED <<cliUnchanged, fRes, fCalls>>

\* utils.printError(error)
Cli_PrintError ==
    /\ fLayer = "cli"
    /\ fPc = "catch"
    /\ fOut' = Append(fOut, PrintError(fRes.err).out)
    /\ fExit' = PrintError(fRes.err).exit
    /\ fPc' = "exited"
    /\ UNCHANGED <<cliUnchanged, fRes, fCalls>>

\* usernote delete without a target: the usage text, then process.exit(0)
Cli_Help ==
    /\ fLayer = "cli"
    /\ fPc = "help"
    /\ fOut' = Append(fOut, TextLine("Usage: xhs-mcp usernote delete [options]"))
    /\ fExit' = Exited(ExitSuccess)
    /\ fPc' = "exited"
    /\ UNCHANGED <<cliUnchanged, fRes, fCalls>>

NextCli ==
    \/ Cli_Action
    \/ Cli_Call
    \/ Cli_GetProfile
    \/ Cli_BatchDownload
    \/ Cli_PrintSuccess
    \/ Cli_PrintError
    \/ Cli_Help

----------------------------------------------------------------------------
(* Initial states and next-state relations                                  *)

InitCommon ==
    /\ openPages = {}
    /\ pageCount = 0
    /\ browserPath = CustomBrowserPath
    /\ pagePaths = <<>>
    /\ nav = NoNav
    /\ outcome = NoOutcome

InitDetailIdle ==
    /\ dNote = NoNote
    /\ dPc = "idle"
    /\ dPage = 0
    /\ dErr = <<>>
    /\ dFiles = <<>>
    /\ dFetched = NoFetch
    /\ dMeta = <<>>
    /\ disk = {}

InitPublishIdle ==
    /\ pIn = [type |-> "none"]
    /\ pSteps = <<>>
    /\ pPage = 0
    /\ pErr = NoErr
    /\ pNoteId = ""
    /\ pNavs = 0
    /\ pClicks = 0
    /\ pSaves = 0
    /\ xPage = 0
    /\ xRan = <<>>

InitWaitIdle ==
    /\ wKind = "none"
    /\ wPhase = "idle"
    /\ wElapsed = 0
    /\ wDom = NoDom
    /\ wOutcome = "none"
    /\ wAllQuiet = TRUE
    /\ wSawProc = FALSE
    /\ wSlept = 0

InitUserIdle ==
    /\ uIn = "none"
    /\ uPage = 0
    /\ uErr = <<>>
    /\ uUrl = ""
    /\ uPending = "none"
    /\ uLimit = 0
    /\ uNotes = <<>>

----------------------------------------------------------------------------
(* PublishService: the helpers that resolve the element a step acts on      *)

NoElement == [strategy |-> 0, visible |-> FALSE]

\* A strategy of a helper: how it looks for the element, and whether it asks
\* isIntersectingViewport() before it takes what page.$ / page.$$ gave.
Checked(by)   == [by |-> by, checks |-> TRUE]
Unchecked(by) == [by |-> by, checks |-> FALSE]

\* fillTitle: the titleSelectors loop, then any visible input or textarea
FillTitleStrategies ==
    [i \in 1..(NumTitleSelectors + 1) |->
        IF i <= NumTitleSelectors THEN Checked("titleSelectors") ELSE Checked("any input")]

\* findContentElement, strategies 1 to 7, followed by the fallbacks of
\* fillContent: the placeholder paragraph's parent, any content element, the
\* first 50 elements of the page
FillContentStrategies ==
    << Checked("div[contenteditable]"), Checked("aria-label"), Checked("data-placeholder"),
       Checked("div.tiptap.ProseMirror"), Checked("editor classes"),
       Checked("div[role=textbox]"), Unchecked("div.ql-editor"),
       Unchecked("contentSelectors"), Checked("textbox[multiline]"),
       Checked("xhsSpecificSelectors"),
       Unchecked("findTextboxByPlaceholder"), Checked("all content elements"),
       Checked("first 50 elements") >>

\* uploadImages: page.$('input[type=file].upload-input'), then page.$('.upload-input')
UploadImagesStrategies == << Unchecked("input[type=file].upload-input"), Unchecked(".upload-input") >>

\* findElementBySelectors(page, selectors): the first selector with a match
FindElementBySelectors(n) == [i \in 1..n |-> Unchecked("selector")]

\* submitPost: the bg-red button of the publish container, then any button
\* whose text has the publish word and none of the unwanted ones
SubmitPostStrategies == << Unchecked("container button"), Unchecked("any button") >>

\* clickUploadTab: a tab with the image/text label, a visible tab by
\* position, or a labelled element among the first 50 of the page
ClickUploadTabStrategies ==
    << Checked("tab by text"), Checked("visible tab"), Checked("first 50 elements") >>

ResolveTargets == {"title", "content", "image file input", "video file input",
                   "publish button", "tab"}

Strategies(target) ==
    CASE target = "title"            -> FillTitleStrategies
      [] target = "content"          -> FillContentStrategies
      [] target = "image file input" -> UploadImagesStrategies
      [] target = "video file input" -> FindElementBySelectors(MaxFileInputSelectors)
      [] target = "publish button"   -> SubmitPostStrategies
      [] OTHER                       -> ClickUploadTabStrategies

\* What a strategy's query gives first: nothing, an element that is hidden
\* or off screen, or a visible element; at most MaxMatches strategies match.
Matches == {"none", "hidden", "visible"}
PageDoms(target) ==
    { d \in [1..Len(Strategies(target)) -> Matches] :
        Cardinality({ i \in DOMAIN d : d[i] # "none" }) <= MaxMatches }

\* A visibility check that lets every match through.
AcceptsAnyMatch(strategy, match) == match # "none"

\* if (element) { [const isVisible = await element.isIntersectingViewport();
\*                 if (isVisible)] return element; }
Accepts(strategy, match) ==
    /\ match # "none"
    /\ strategy.checks => match = "visible"

\* What the step throws when no strategy gave an element.
NotFoundError(target) ==
    CASE target = "title"            -> Err("PublishError", "Could not find title input field")
      [] target = "content"          -> Err("PublishError", "Could not find content input field")
      [] target = "image file input" -> Err("PublishError", "Could not find file upload input on page")
      [] target = "video file input" ->
             Err("PublishError", "Could not find file upload input on video upload page")
      [] target = "publish button"   -> Err("PublishError", "Could not find the publish button")
      [] OTHER                       -> NoErr

\* One strategy of the cascade is tried.
Resolve_Try ==
    /\ op = "resolve"
    /\ rPc = "search"
    /\ rIdx <= Len(Strategies(rTarget))
    /\ IF Accepts(Strategies(rTarget)[rIdx], rDom[rIdx])
       THEN /\ rFound' = [strategy |-> rIdx, visible |-> rDom[rIdx] = "visible"]
            /\ rPc' = "accepted"
            /\ UNCHANGED rIdx
       ELSE /\ rIdx' = rIdx + 1
            /\ UNCHANGED <<rFound, rPc>>
    /\ UNCHANGED <<op, pc, outcome, commonVars, batchVars, detailVars, publishVars,
                   waitVars, userVars, frontVars, rTarget, rDom, rWrites, rErr>>

\* Every strategy has been tried: the helper returns null, or its caller throws.
Resolve_NotFound ==
    /\ op = "resolve"
    /\ rPc = "search"
    /\ rIdx > Len(Strategies(rTarget))
    /\ rPc' = "notfound"
    /\ rErr' = NotFoundError(rTarget)
    /\ UNCHANGED <<op, pc, outcome, commonVars, batchVars, detailVars, publishVars,
                   waitVars, userVars, frontVars, rTarget, rDom, rIdx, rFound, rWrites>>

\* fillTitle: await titleInput.click(); await sleep(500); await
\* titleInput.type(title); return. An error of click or type is caught and
\* the loop goes on with the next selector; type may have sent some keys.
FillTitle_Type ==
    /\ op = "resolve"
    /\ rTarget = "title"
    /\ rPc = "accepted"
    /\ \/ /\ rWrites' = Append(rWrites, [strategy |-> rIdx, wrote |-> "all", by |-> "type"])
          /\ rPc' = "done"
          /\ UNCHANGED <<rIdx, rFound>>
       \/ /\ \E w \in {"nothing", "part"} :
                rWrites' = Append(rWrites, [strategy |-> rIdx, wrote |-> w, by |-> "type"])
          /\ rPc' = "search"
          /\ rIdx' = rIdx + 1
          /\ rFound' = NoElement
    /\ UNCHANGED <<op, pc, outcome, commonVars, batchVars, detailVars, publishVars,
                   waitVars, userVars, frontVars, rTarget, rDom, rErr>>

\* fillContent's alternative method: page.evaluate clears the element and sets
\* its text; an error of it is the only one that leaves fillContent.
SetContentDirectly(writes, strategy) ==
    { [w |-> Append(writes, [strategy |-> strategy, wrote |-> "all", by |-> "evaluate"]),
       e |-> NoErr, to |-> "done"],
      [w |-> writes, e |-> Err("PublishError", "Failed to fill content"), to |-> "failed"] }

\* fillContent once the content element is resolved: the computed style check
\* (display, visibility, opacity, pointer-events), then click and type, all
\* in one try block; its catch logs "Standard typing failed ... Trying
\* alternative method" and sets the content on the same element.
FillContent_Type ==
    /\ op = "resolve"
    /\ rTarget = "content"
    /\ rPc = "accepted"
    /\ \E elementIsClickable \in BOOLEAN :
          /\ rFound' = [strategy |-> rFound.strategy, visible |-> rFound.visible,
                        clickable |-> elementIsClickable]
          /\ \/ /\ elementIsClickable
                /\ rWrites' = Append(rWrites, [strategy |-> rIdx, wrote |-> "all", by |-> "type"])
                /\ rPc' = "done"
                /\ UNCHANGED rErr
             \/ \E typed \in IF elementIsClickable
                              THEN { Append(rWrites, [strategy |-> rIdx, wrote |-> w, by |-> "type"]) :
                                        w \in {"nothing", "part"} }
                              ELSE { rWrites } :
                   \E r \in SetContentDirectly(typed, rIdx) :
                      /\ rWrites' = r.w
                      /\ rErr' = r.e
                      /\ rPc' = r.to
    /\ UNCHANGED <<op, pc, outcome, commonVars, batchVars, detailVars, publishVars,
                   waitVars, userVars, frontVars, rTarget, rDom, rIdx>>

NextResolve ==
    \/ Resolve_Try
    \/ Resolve_NotFound
    \/ FillTitle_Type
    \/ FillContent_Type

InitResolveIdle ==
    /\ rTarget = "none"
    /\ rDom = <<>>
    /\ rIdx = 0
    /\ rFound = NoElement
    /\ rPc = "idle"
    /\ rWrites = <<>>
    /\ rErr = NoErr

InitFrontIdle ==
    /\ fLayer = "none"
    /\ fReq = NoRequest
    /\ fPc = "idle"
    /\ fRes = NoRes
    /\ fOut = <<>>
    /\ fExit = NotExited
    /\ fCalls = <<>>
    /\ fServed = 0
    /\ lLogin = NoLogins

InitBatchIdle ==
    /\ bNotes = <<>>
    /\ bLimit = 0
    /\ bDelay = 0
    /\ bIdx = 0
    /\ bRes = NewBatchResult(0)
    /\ bAttempts = <<>>
    /\ bThrown = <<>>
    /\ bSlept = 0

\* batchDownloadNotes(notes, {limit, delay}) has built its result object.
InitBatch ==
    /\ op = "batch"
    /\ pc = "batch_loop"
    /\ InitCommon
    /\ InitDetailIdle
    /\ InitPublishIdle
    /\ InitWaitIdle
    /\ InitUserIdle
    /\ InitFrontIdle
    /\ InitResolveIdle
    /\ bNotes \in NoteLists
    /\ bLimit \in {0, 1, MaxNotes - 1, MaxNotes + 1}
    /\ bDelay \in {0, DefaultDelay}
    /\ bIdx = 0
    /\ bRes = NewBatchResult(Len(NotesToDownload(bNotes, bLimit)))
    /\ bAttempts = <<>>
    /\ bThrown = <<>>
    /\ bSlept = 0

\* getNoteDetail(url) called directly.
InitDetail ==
    /\ op = "detail"
    /\ pc = "run"
    /\ InitCommon
    /\ InitBatchIdle
    /\ InitPublishIdle
    /\ InitWaitIdle
    /\ InitUserIdle
    /\ InitFrontIdle
    /\ InitResolveIdle
    /\ dNote \in NoteUniverse
    /\ dPc = "detail_create"
    /\ dPage = 0
    /\ dErr = <<>>
    /\ dFiles = <<>>
    /\ dFetched = NoFetch
    /\ dMeta = <<>>
    /\ disk = {}

\* publishContent(type, title, content, mediaPaths, tags) is called.
InitPublish ==
    /\ op = "publish"
    /\ pc = "validate"
    /\ InitCommon
    /\ InitBatchIdle
    /\ InitDetailIdle
    /\ InitWaitIdle
    /\ InitUserIdle
    /\ InitFrontIdle
    /\ InitResolveIdle
    /\ pIn \in PublishInputs
    /\ pSteps = <<>>
    /\ pPage = 0
    /\ pErr = NoErr
    /\ pNoteId = ""
    /\ pNavs = 0
    /\ pClicks = 0
    /\ pSaves = 0
    /\ xPage = 0
    /\ xRan = <<>>

\* getUserProfile(input) or getUserNoteLinks(input) is called.
InitUser ==
    /\ op \in {"profile", "links"}
    /\ pc = "resolve"
    /\ InitCommon
    /\ InitBatchIdle
    /\ InitDetailIdle
    /\ InitPublishIdle
    /\ InitWaitIdle
    /\ InitFrontIdle
    /\ InitResolveIdle
    /\ uIn \in UserInputs
    /\ uPage = 0
    /\ uErr = <<>>
    /\ uUrl = ""
    /\ uPending = "none"
    /\ uLimit \in UserLimits
    /\ uNotes = <<>>

NextDetail ==
    \/ GetNoteDetail_CreatePage
    \/ GetNoteDetail_Navigate
    \/ GetNoteDetail_Extract
    \/ GetNoteDetail_Finally
    \/ GetNoteDetail_Catch
    \/ GetNoteDetail_Done

NextBatch ==
    \/ GetNoteDetail_CreatePage
    \/ GetNoteDetail_Navigate
    \/ GetNoteDetail_Extract
    \/ GetNoteDetail_Finally
    \/ GetNoteDetail_Catch
    \/ DownloadNote_Fetch
    \/ DownloadNote_Catch
    \/ Batch_Attempt
    \/ Batch_Downloaded
    \/ Batch_Delay
    \/ Batch_Failed
    \/ Batch_Return

SpecBatch == InitBatch /\ [][NextBatch]_vars

SpecPublish == InitPublish /\ [][NextPublish]_vars

\* The operations that create pages: getNoteDetail, publishContent,
\* getUserProfile, getUserNoteLinks.
InitPages == InitDetail \/ InitPublish \/ InitUser

NextPages == NextDetail \/ NextPublish \/ NextUser

SpecPages == InitPages /\ [][NextPages]_vars

\* Every service operation; batchDownloadNotes is run with its default
\* options here (no limit, the default delay): its options are the subject of
\* SpecBatch.
InitServices == (InitBatch /\ bLimit = 0 /\ bDelay = DefaultDelay) \/ InitPages

NextServices == NextBatch \/ NextPages

SpecServices == InitServices /\ [][NextServices]_vars

\* A front end with nothing started below it.
InitFrontServices ==
    /\ op = "front"
    /\ pc = "idle"
    /\ InitCommon
    /\ InitBatchIdle
    /\ InitDetailIdle
    /\ InitPublishIdle
    /\ InitWaitIdle
    /\ InitUserIdle
    /\ InitResolveIdle

\* The server has received a tool request.
InitTool ==
    /\ InitFrontServices
    /\ fLayer = "tool"
    /\ fReq \in ToolRequests
    /\ fPc = "dispatch"
    /\ fRes = NoRes
    /\ fOut = <<>>
    /\ fExit = NotExited
    /\ fCalls = <<>>
    /\ fServed = 1
    /\ lLogin = NoLogins

\* commander has parsed the command line and calls the command's action.
InitCli ==
    /\ InitFrontServices
    /\ fLayer = "cli"
    /\ fReq \in CliRequests
    /\ fPc = "action"
    /\ fRes = NoRes
    /\ fOut = <<>>
    /\ fExit = NotExited
    /\ fCalls = <<>>
    /\ fServed = 1
    /\ lLogin = NoLogins

InitFront == InitTool \/ InitCli

NextFront ==
    \/ NextTool
    \/ NextCli
    \/ Front_PublishCall
    \/ Front_PublishReturn
    \/ NextPublish

SpecFront == InitFront /\ [][NextFront]_vars

\* The element-resolution helpers of the publish flow, run on any page.
InitResolve ==
    /\ op = "resolve"
    /\ pc = "idle"
    /\ InitCommon
    /\ InitBatchIdle
    /\ InitDetailIdle
    /\ InitPublishIdle
    /\ InitWaitIdle
    /\ InitUserIdle
    /\ InitFrontIdle
    /\ rTarget \in ResolveTargets
    /\ rDom \in PageDoms(rTarget)
    /\ rIdx = 1
    /\ rFound = NoElement
    /\ rPc = "search"
    /\ rWrites = <<>>
    /\ rErr = NoErr

SpecResolve == InitResolve /\ [][NextResolve]_vars

WaitKinds == {"processing", "upload", "publish", "videoPublish"}

\* One polling wait of the publish flow has just taken its startTime.
InitWait ==
    /\ op = "wait"
    /\ pc = "idle"
    /\ InitCommon
    /\ InitBatchIdle
    /\ InitDetailIdle
    /\ InitPublishIdle
    /\ InitUserIdle
    /\ InitFrontIdle
    /\ InitResolveIdle
    /\ wKind \in WaitKinds
    /\ wPhase = "poll"
    /\ wElapsed = 0
    /\ wDom = NoDom
    /\ wOutcome = "none"
    /\ wAllQuiet = TRUE
    /\ wSawProc = FALSE
    /\ wSlept = 0

NextWait ==
    \/ Wait_Observe
    \/ Wait_Evaluate
    \/ Wait_Expire

\* An awaited page query settles and a timer set by sleep() fires: the step
\* of the loop that is due runs.
SpecWait ==
    /\ InitWait
    /\ [][NextWait]_vars
    /\ WF_vars(Wait_Observe)
    /\ WF_vars(Wait_Evaluate)
    /\ WF_vars(Wait_Expire)


----------------------------------------------------------------------------
(* Claims about batchDownloadNotes                                          *)

BatchReturned == op = "batch" /\ pc = "done"

IsPrefix(s, t) == Len(s) <= Len(t) /\ s = SubSeq(t, 1, Len(s))

\* C1: totalNotes is the number of notes left after the limit; in every state
\* of the loop downloadedCount + failedCount <= totalNotes, and on return the
\* two counts add up to totalNotes.
C1_CountsWithinTotal ==
    op = "batch" =>
        /\ bRes.totalNotes = Len(NotesToDownload(bNotes, bLimit))
        /\ bRes.totalNotes = IF bLimit > 0 THEN Min(bLimit, Len(bNotes)) ELSE Len(bNotes)
        /\ bRes.downloadedCount + bRes.failedCount <= bRes.totalNotes
        /\ (pc = "done" => bRes.downloadedCount + bRes.failedCount = bRes.totalNotes)

\* C1 witness: a batch cut by the limit has returned with one note downloaded
\* (several files) and one failed.
C1_Witness ==
    /\ BatchReturned
    /\ bLimit > 0 /\ Len(bNotes) > bLimit
    /\ bRes.downloadedCount > 0 /\ bRes.failedCount > 0
    /\ Len(bRes.files) > bRes.downloadedCount

\* C2: on return, success = (downloadedCount > 0) when a note failed, success
\* is true when none failed; hence success is false only with zero downloads.
C2_SuccessFlag ==
    BatchReturned =>
        /\ (bRes.failedCount > 0 => bRes.success = (bRes.downloadedCount > 0))
        /\ (bRes.failedCount = 0 => bRes.success = TRUE)
        /\ (bRes.success = FALSE => bRes.downloadedCount = 0)

\* C2 witness: a partly failed batch is reported as a success.
C2_Witness ==
    /\ BatchReturned
    /\ bRes.failedCount > 0 /\ bRes.downloadedCount > 0 /\ bRes.success

\* C2 witness of the other branch: every note failed and the batch failed.
C2_WitnessAllFailed ==
    /\ BatchReturned
    /\ bRes.failedCount > 1 /\ bRes.downloadedCount = 0 /\ ~bRes.success

\* C3: errors.length = failedCount in every state, and errors lists exactly
\* the (noteId, title, message) of the downloadNote calls that threw, in the
\* order they threw (the last throw is entered once its catch block has run).
C3_ErrorsMatchFailures ==
    op = "batch" =>
        /\ Len(bRes.errors) = bRes.failedCount
        /\ IF dPc = "download_thrown"
           THEN bRes.errors = SubSeq(bThrown, 1, Len(bThrown) - 1)
           ELSE bRes.errors = bThrown

\* C3 witness: two notes threw for different reasons and the batch returned.
C3_Witness ==
    /\ BatchReturned
    /\ Len(bRes.errors) = 2
    /\ bRes.errors[1].error # bRes.errors[2].error

\* C4: the notes handed to downloadNote are always a prefix of the limited
\* list, each once and in list order; on return the whole limited list has
\* been attempted and the batch has returned a result, never thrown.
C4_EveryNoteAttemptedOnce ==
    op = "batch" =>
        /\ IsPrefix(bAttempts, NotesToDownload(bNotes, bLimit))
        /\ Len(bAttempts) \in {bIdx, bIdx + 1}
        /\ (pc = "done" => /\ bAttempts = NotesToDownload(bNotes, bLimit)
                           /\ outcome.status = "ok")

\* C4 witness: the first note failed, the second was still attempted and
\* downloaded, and the batch returned.
C4_Witness ==
    /\ BatchReturned
    /\ Len(bAttempts) = 2
    /\ Len(bThrown) = 1
    /\ bThrown[1].noteId = bAttempts[1].noteId
    /\ bAttempts[1].noteId # bAttempts[2].noteId
    /\ bRes.downloadedCount = 1

----------------------------------------------------------------------------
(* Claims about page cleanup, validation and completion detection           *)

\* An operation, or a helper that opened a page of its own, has handed
\* control back to its caller.
OperationExited ==
    \/ pc = "done"
    \/ dPc \in {"detail_return", "detail_thrown"}
    \/ op \in {"profile", "links"} /\ pc \in {"search_create", "invalid_input", "main_create"}

\* C5: in publishNote, publishVideo, getNoteDetail, getUserProfile,
\* getUserNoteLinks, resolveProfileUrl and searchUserByXhsNumber every page
\* obtained from createPage is closed by the time the operation returns or
\* throws, whichever step failed; while it runs, the only open pages are the
\* ones the running steps hold.
C5_PagesClosedOnExit ==
    /\ OperationExited => openPages = {}
    /\ openPages \subseteq ({pPage, xPage, dPage, uPage} \ {0})

C5_Witness ==
    /\ op = "publish"
    /\ pc = "done"
    /\ outcome.status = "thrown"
    /\ pErr.message = "Failed to save cookies"
    /\ pageCount = 2
    /\ openPages = {}

\* The inputs C6 calls invalid, read off the input alone.
C6_InvalidInput ==
    \/ pIn.title.blank
    \/ pIn.content.blank
    \/ pIn.media.n = 0
    \/ pIn.type = "image" /\ pIn.media.n > ImageLimit
    \/ pIn.type = "video" /\ pIn.media.n # 1
    \/ pIn.title.width > TitleMaxWidth
    \/ pIn.media.bad \in {"missing", "notfile", "ext"}
    \/ pIn.type = "video" /\ pIn.media.bad = "size"

\* C6: when publishContent fails on input validation, no browser page has
\* been created and no navigation performed; the validation runs once and
\* its failure ends the operation with the error thrown (no retry).
C6_ValidationFailsBeforeBrowser ==
    /\ [](op = "publish" /\ C6_InvalidInput =>
            /\ pageCount = 0
            /\ openPages = {}
            /\ pNavs = 0
            /\ pClicks = 0
            /\ pc \in {"validate", "done"}
            /\ pc = "done" => /\ outcome.status = "thrown"
                              /\ outcome.error \in {"PublishError", "InvalidImageError"})
    /\ [][op = "publish" /\ C6_InvalidInput /\ pc = "validate" => pc' = "done"]_vars
    /\ [][op = "publish" /\ pc = "done" => pc' = "done"]_vars

C6_Witness ==
    /\ op = "publish"
    /\ pc = "done"
    /\ pIn.type = "video"
    /\ pIn.media.bad = "size"
    /\ ~pIn.title.blank /\ ~pIn.content.blank /\ pIn.media.n = 1
    /\ pIn.title.width <= TitleMaxWidth
    /\ outcome.status = "thrown"
    /\ pageCount = 0

CompletionKinds == {"publish", "videoPublish"}

\* C7: waitForPublishCompletion (60 s) and waitForVideoPublishCompletion
\* (300 s): when every poll tick is quiet (no success, error or toast signal,
\* the publish page still present) the wait ends only by its timeout, once
\* the window has elapsed; the clock never runs past the window by more than
\* one sleep; the timeout reaches the caller as a PublishError and the
\* publish operation fails.
C7_QuietWaitTimesOut ==
    /\ wKind \in CompletionKinds /\ wPhase = "resolved" /\ wAllQuiet =>
           /\ wOutcome = "timeout"
           /\ wElapsed >= WaitTimeout(wKind)
    /\ wKind \in CompletionKinds /\ wPhase = "observed" => wElapsed < WaitTimeout(wKind)
    /\ wKind \in CompletionKinds /\ wPhase = "poll" =>
           wElapsed < WaitTimeout(wKind) + TickSleep(wKind, "pending")
    /\ wKind \in CompletionKinds /\ wPhase = "idle" /\ wOutcome = "timeout" =>
           /\ pc \in {"finally", "done"}
           /\ pErr = Err("PublishError", "Publish completion timeout")
           /\ pNoteId = ""
           /\ pSaves = 0
           /\ pc = "done" => outcome = Thrown(pErr)

C7_Witness ==
    /\ op = "publish"
    /\ pc = "done"
    /\ wKind = "videoPublish"
    /\ wOutcome = "timeout"
    /\ wAllQuiet
    /\ outcome.status = "thrown"
    /\ outcome.message = "Publish completion timeout"

\* A tick of completion detection has settled the wait on what it saw.
CompletionTickResolved ==
    /\ wKind \in CompletionKinds
    /\ wPhase = "resolved"
    /\ wOutcome # "timeout"
    /\ wDom.q = "ok"

SuccessSignal(dom) == dom.succ \/ HasToast(dom, "succ")

\* C8: publish completion detection: after a processing indicator has been
\* showing, the tick that observes a success signal (success element or
\* success-toast text) reports SUCCEEDED, never FAILED, whatever error
\* indicator shows on that tick.
C8_SuccessSignalWins ==
    CompletionTickResolved /\ wSawProc /\ SuccessSignal(wDom) => wOutcome = "succeeded"

\* C9: publish completion detection: a tick on which an error toast is showing
\* (and no success signal) resolves to FAILED even when the publish-page
\* indicators are gone, never to SUCCEEDED through "left the page".
C9_ErrorToastBeforePagePresence ==
    CompletionTickResolved /\ HasToast(wDom, "err") /\ ~SuccessSignal(wDom) =>
        wOutcome = "failed"

\* C10 as stated: no completion wait (video processing, video upload,
\* publish, video publish) reports completion on a tick with no success,
\* error or processing indicator and the operation page still present.
C10_NoCompletionOnQuietTick ==
    wPhase = "resolved" /\ wOutcome \in {"succeeded", "failed"} => ~Quiet(wDom)

\* What a quiet tick leads to in each wait.
QuietTickCompletes(kind, dom) ==
    \/ kind = "processing"
    \/ kind = "upload" /\ dom.button = "enabled"

\* C10, amended: on a quiet tick waitForPublishCompletion and
\* waitForVideoPublishCompletion stay pending; waitForVideoUploadCompletion
\* stays pending unless an enabled publish button is found, and then
\* returns; waitForVideoProcessing takes the tick as "processing is done"
\* and returns.
C10_QuietTickOutcome ==
    /\ [](wPhase = "resolved" /\ wOutcome \in {"succeeded", "failed"} /\ Quiet(wDom) =>
            /\ QuietTickCompletes(wKind, wDom)
            /\ wOutcome = "succeeded")
    /\ [][wPhase = "observed" /\ Quiet(wDom) =>
            IF QuietTickCompletes(wKind, wDom)
            THEN wPhase' = "resolved" /\ wOutcome' = "succeeded"
            ELSE wPhase' = "poll" /\ wOutcome' = "none" /\ wElapsed' > wElapsed]_vars

C10_Witness ==
    /\ wKind = "processing"
    /\ wPhase = "resolved"
    /\ Quiet(wDom)
    /\ wOutcome = "succeeded"

C10_WitnessPending ==
    /\ wKind = "publish"
    /\ wPhase = "poll"
    /\ wAllQuiet
    /\ wElapsed > 0

----------------------------------------------------------------------------
(* Claims about the pre-submit waits, note-id extraction, the publish       *)
(* button and the cookie save                                               *)

PreSubmitKinds == {"processing", "upload"}

TimeoutError == Err("PublishError", "Publish completion timeout")

\* C11 as stated: when waitForVideoProcessing or waitForVideoUploadCompletion
\* times out, the publish operation fails with a completion-timeout error and
\* neither fills fields nor clicks the publish button.
C11_PreSubmitTimeoutFails ==
    wKind \in PreSubmitKinds /\ wPhase = "idle" /\ wOutcome = "timeout" =>
        /\ pc \in {"finally", "done"}
        /\ pErr = TimeoutError
        /\ pClicks = 0

\* C11, amended: a timeout of waitForVideoProcessing or of
\* waitForVideoUploadCompletion is logged and the flow goes on: after the
\* first, uploadVideo returns normally and the title is filled next; after
\* the second, submitPost goes on to look for the publish button and click
\* it.  Neither timeout ever becomes the operation's error: a
\* completion-timeout error comes only from the publish-completion waits.
C11_PreSubmitTimeoutContinues ==
    /\ [](pErr = TimeoutError => wKind \in CompletionKinds /\ wOutcome = "timeout")
    /\ [](wKind \in PreSubmitKinds /\ wOutcome = "timeout" /\ wPhase = "idle" =>
            pErr.message # "Failed to upload video")
    /\ [][pc = "wait_processing" /\ wPhase = "resolved" /\ wOutcome = "timeout" =>
            pc' = "title" /\ pErr' = NoErr]_vars
    /\ [][pc = "wait_upload" /\ wPhase = "resolved" /\ wOutcome = "timeout" =>
            ((pc' = "wait_publish" /\ pClicks' = pClicks + 1 /\ pErr' = NoErr)
             \/ (pc' = "finally" /\ pErr'.message \in {"Could not find the publish button",
                                                        "Failed to click publish button"}))]_vars

C11_Witness ==
    /\ op = "publish"
    /\ pc = "content"
    /\ wKind = "processing"
    /\ wPhase = "idle"
    /\ wOutcome = "timeout"
    /\ pErr = NoErr

C11_WitnessUpload ==
    /\ op = "publish"
    /\ pc = "wait_upload"
    /\ wKind = "upload"
    /\ wPhase = "resolved"
    /\ wOutcome = "timeout"

ExtractionPcs == {"extract", "extract_dom", "extract_listing", "extract_listing_close"}

\* C12: once completion detection has resolved to SUCCEEDED,
\* extractNoteIdFromPage never throws: whatever the URL match, the DOM scan
\* and the latest-note listing do, the flow goes on to the cookie save with
\* no error; a publish that then returns has success = true, with the note
\* id absent when nothing was found.
C12_ExtractionNeverFails ==
    /\ [](pc \in ExtractionPcs => /\ pErr = NoErr
                                  /\ wKind \in CompletionKinds
                                  /\ wOutcome = "succeeded")
    /\ [][(pc \in ExtractionPcs) =>
            (pc' \in ExtractionPcs \cup {"save"} /\ pErr' = NoErr)]_vars
    /\ [](op = "publish" /\ pc = "done" /\ pErr = NoErr /\ Valid(pIn) /\ pageCount > 0 =>
            /\ outcome.status = "ok"
            /\ outcome.success
            /\ outcome.noteId = pNoteId)

C12_Witness ==
    /\ op = "publish"
    /\ pc = "done"
    /\ pageCount = 2
    /\ pNoteId = ""
    /\ outcome.status = "ok"
    /\ outcome.success
    /\ outcome.noteId = ""

AfterClickPcs == {"wait_publish", "extract", "extract_dom", "extract_listing",
                  "extract_listing_close",
                  "save", "finally", "done"}

\* C13: in any execution of publishContent the publish button is clicked at
\* most once and the page is navigated at most once; once the button has
\* been clicked the flow only moves forward (completion detection, note-id
\* extraction, cookie save, cleanup), whatever error or timeout follows.
C13_PublishClickedAtMostOnce ==
    /\ [](pClicks <= 1 /\ pNavs <= 1)
    /\ [](pClicks = 1 => pc \in AfterClickPcs)
    /\ [][pClicks = 1 => pClicks' = 1 /\ pNavs' = pNavs /\ pc' \in AfterClickPcs]_vars

C13_Witness ==
    /\ op = "publish"
    /\ pc = "done"
    /\ pClicks = 1
    /\ outcome.status = "thrown"
    /\ outcome.message = "Publish completion timeout"

\* C14: saveCookiesFromPage is called only by publishNote / publishVideo, at
\* most once, and only after completion detection returned success; a
\* publish that fails at an earlier step, and getNoteDetail, downloadNote,
\* batchDownloadNotes, getUserProfile and getUserNoteLinks, never call it.
C14_CookiesSavedOnlyAfterSuccess ==
    /\ pSaves <= 1
    /\ pSaves > 0 => /\ op = "publish"
                     /\ pc \in {"finally", "done"}
                     /\ wKind \in CompletionKinds
                     /\ wOutcome = "succeeded"
                     /\ pClicks = 1
    /\ op # "publish" => pSaves = 0
    /\ op = "publish" /\ pc = "done" /\ outcome.status = "thrown"
          /\ outcome.message # "Failed to save cookies" => pSaves = 0

C14_Witness ==
    /\ op = "publish"
    /\ pc = "done"
    /\ pSaves = 1
    /\ outcome.status = "ok"

C14_WitnessReadOnly ==
    /\ op = "batch"
    /\ pc = "done"
    /\ pageCount > 0
    /\ pSaves = 0

----------------------------------------------------------------------------
(* Claims about the tool handlers and the CLI                                *)

ToolPcs == {"dispatch", "handle", "call", "await_publish", "batch", "respond",
            "catch", "resolved"}

C15_WitnessUnknown ==
    /\ fLayer = "tool"
    /\ fReq.name \notin ToolNames
    /\ fPc = "resolved"
    /\ fOut[1].kind = "error_response"

LoginStarted(response) ==
    /\ response.kind = "tool_response"
    /\ response.body.success = TRUE
    /\ response.body.status = "login_started"

\* C16: handleAuthLogin returns the success = true, 'login_started' response
\* without waiting for AuthService.login to settle: the handler resolves in
\* the step that starts the login, its response stays that response whether
\* the login then succeeds, fails or times out, and the settling of a
\* background login changes no request's result or response.
C16_LoginRespondsAtOnce ==
    /\ []((fLayer = "tool" /\ fReq.name = "xhs_auth_login" /\ fPc = "resolved") =>
            (Len(fOut) = 1 /\ LoginStarted(fOut[1])))
    /\ [][(fLayer = "tool" /\ fReq.name = "xhs_auth_login" /\ fPc = "handle" /\ fPc' # fPc) =>
            (/\ fPc' = "resolved"
             /\ lLogin'.pending = lLogin.pending + 1
             /\ fRes' = fRes)]_vars
    /\ [][(lLogin'.pending < lLogin.pending) =>
            (fOut' = fOut /\ fRes' = fRes /\ fPc' = fPc)]_vars

\* Another tool request has started and finished while the login is pending.
C16_Witness ==
    /\ fLayer = "tool"
    /\ fServed = 2
    /\ fReq.name = "xhs_auth_status"
    /\ fPc = "resolved"
    /\ fOut[1].body.success
    /\ lLogin.pending = 1

\* The login has failed after its handler answered.
C16_WitnessRejected ==
    /\ fLayer = "tool"
    /\ fServed = 1
    /\ fReq.name = "xhs_auth_login"
    /\ fPc = "resolved"
    /\ lLogin.failed + lLogin.timedOut = 1

\* A delete request that names neither a note id nor the last published note.
DeleteWithoutTarget ==
    /\ fReq.name \in {"xhs_delete_note", "usernote delete"}
    /\ ~fReq.noteId
    /\ ~fReq.lastPublished

C17_WitnessTool ==
    /\ DeleteWithoutTarget
    /\ fLayer = "tool"
    /\ fPc = "resolved"

\* The command ended in a failure outcome: an error was thrown, or the result
\* it printed has success = false.
CliFailureOutcome ==
    \/ fRes.kind = "thrown"
    \/ fRes.kind = "returned" /\ ~fRes.body.success

JsonWrites == { i \in 1..Len(fOut) : fOut[i].kind = "json" }

\* C18 as stated: on the CLI every invocation that ends in a failure outcome
\* writes exactly one JSON result and exits with a non-zero status, and exit
\* status 0 is produced only for success outcomes.
C18_FailureExitsNonZero ==
    (fLayer = "cli" /\ fPc = "exited" /\ fRes.kind # "none") =>
        /\ Cardinality(JsonWrites) = 1
        /\ CliFailureOutcome => (fExit.code # ExitSuccess)
        /\ (fExit.code = ExitSuccess) => ~CliFailureOutcome

\* user -m download has run a batch in which every download failed.
C18_AllDownloadsFailed ==
    /\ fLayer = "cli"
    /\ fReq.name = "user"
    /\ fReq.mode = "download"
    /\ fPc = "exited"
    /\ fCalls = <<"UserService.getUserProfile", "DownloadService.batchDownloadNotes">>
    /\ fRes.body.total > 0
    /\ ~fRes.body.success
    /\ fExit = Exited(ExitSuccess)

PublishRequested == fReq.name \in {"xhs_publish_content", "publish"}

\* C19 as stated: on every path that reaches publishContent, the MCP handler
\* and the CLI publish command, content longer than the maximum length is
\* rejected before any browser page is created.
C19_LongContentRejectedBeforeBrowser ==
    (PublishRequested /\ fReq.contentLen > MaxContentLength) =>
        /\ pageCount = 0
        /\ (fPc \in {"resolved", "exited"}) => (fRes.kind = "thrown")

\* The MCP handler alone does reject over-long content before the service is
\* called.
C19_HandlerRejectsLongContent ==
    (fLayer = "tool" /\ PublishRequested /\ fReq.contentLen > MaxContentLength) =>
        (pageCount = 0 /\ fCalls = <<>>)

\* The CLI has published content one character over the maximum.
C19_CliPublishedLongContent ==
    /\ fLayer = "cli"
    /\ fReq.name = "publish"
    /\ fReq.contentLen = MaxContentLength + 1
    /\ fPc = "exited"
    /\ fRes.kind = "returned"
    /\ fRes.body.success
    /\ pClicks = 1

\* C20 as stated: xhs_download_user_notes with limit = 0 downloads all of
\* the user's notes: the number of notes attempted equals the number of notes
\* the profile has, not a default cap.
C20_ZeroLimitDownloadsAll ==
    (/\ fLayer = "tool"
     /\ fReq.name = "xhs_download_user_notes"
     /\ fReq.hasLimit
     /\ fReq.limit = 0
     /\ fPc = "resolved"
     /\ Len(fCalls) = 2) =>
        fRes.body.total = fReq.profileNotes

\* A profile with more notes than the default cap, limit = 0: the cap was
\* attempted.
C20_CappedAtDefault ==
    /\ fLayer = "tool"
    /\ fReq.name = "xhs_download_user_notes"
    /\ fReq.hasLimit
    /\ fReq.limit = 0
    /\ fReq.profileNotes = DefaultNoteLimit + 1
    /\ fPc = "resolved"
    /\ Len(fCalls) = 2
    /\ fRes.body.total = DefaultNoteLimit

----------------------------------------------------------------------------
(* Claims about batch pacing, browser paths, error context and results      *)

\* A downloadNote call of the batch is in progress and is not the first one.
LaterAttemptRunning ==
    /\ op = "batch"
    /\ Len(bAttempts) >= 2
    /\ dPc # "idle"

\* C21 as stated: in batchDownloadNotes with delay > 0, at least the
\* configured delay elapses between any two consecutive per-note download
\* attempts, whether the earlier attempt succeeded or failed, and no delay
\* follows the last note.
C21_DelayBetweenAttempts ==
    (op = "batch" /\ bDelay > 0) =>
        /\ LaterAttemptRunning => (bSlept >= bDelay)
        /\ (pc = "done") => (bSlept = 0)

\* After attempts that all succeeded the delay has been slept, and nothing
\* is slept after the last note.
C21_DelayAfterSuccess ==
    (op = "batch" /\ bDelay > 0) =>
        /\ (LaterAttemptRunning /\ bRes.failedCount = 0) => (bSlept = bDelay)
        /\ (pc = "done") => (bSlept = 0)

\* The second attempt runs right after the first one failed.
C21_NoDelayAfterFailure ==
    /\ LaterAttemptRunning
    /\ bDelay = DefaultDelay
    /\ Len(bAttempts) = 2
    /\ bRes.failedCount = 1
    /\ bSlept = 0

\* C22 as stated: the custom browser executable path given to an operation
\* is passed to every createPage call the operation makes, directly or
\* through a helper service, the latest-note listing fallback of note-id
\* extraction inside publish included.
C22_BrowserPathReachesEveryPage ==
    \A i \in 1..Len(pagePaths) : pagePaths[i] = browserPath

\* The pages the download, user and publish services create themselves do
\* get the path: every page but the listing page of the fallback.
C22_OwnPagesGetBrowserPath ==
    /\ (op # "publish") => C22_BrowserPathReachesEveryPage
    /\ (op = "publish" /\ Len(pagePaths) >= 1) => (pagePaths[1] = browserPath)
    /\ (op = "publish") => (Len(pagePaths) <= 2)

\* Publish has opened the listing page of the fallback without the path.
C22_ListingPageWithoutPath ==
    /\ op = "publish"
    /\ browserPath = CustomBrowserPath
    /\ xPage = 2
    /\ pagePaths = <<CustomBrowserPath, NoBrowserPath>>

\* getUserProfile has created the page of a resolver helper and its own page
\* with the path.
C22_UserPagesWithPath ==
    /\ op = "profile"
    /\ pagePaths = <<CustomBrowserPath, CustomBrowserPath>>

\* An operation of the publish, download or user service has thrown a domain
\* error.
DomainErrorThrown ==
    /\ op \in {"detail", "publish", "profile", "links"}
    /\ pc = "done"
    /\ outcome.status = "thrown"
    /\ outcome.error \in XHSErrorClasses

\* C23 as stated: every domain error raised by the publish, download and
\* user services carries in its context the originating operation name and
\* the relevant identifiers or selectors attempted.
C23_DomainErrorsCarryContext ==
    DomainErrorThrown =>
        /\ "operation" \in outcome.context
        /\ outcome.context \ {"operation"} # {}

\* The publish completion wait has timed out: the PublishError thrown has an
\* empty context.
C23_TimeoutWithoutContext ==
    /\ DomainErrorThrown
    /\ op = "publish"
    /\ wOutcome = "timeout"
    /\ outcome.error = "PublishError"
    /\ outcome.context = {}

\* C24: a failed fetch of an image or of the video does not fail
\* downloadNote and is accounted for in what it returns: files holds exactly
\* the media paths whose fetch succeeded, images in order and then the video,
\* followed by the metadata.json path, and metadata.downloadedFiles lists
\* exactly the names of the fetched media files.
C24_FailedFetchIsNonFatal ==
    (op = "batch" /\ dPc = "download_return") =>
        LET media == SubSeq(dFiles, 1, Len(dFiles) - 1)
        IN  /\ Len(dFiles) >= 1
            /\ dFiles[Len(dFiles)] = [dir |-> dNote.author, kind |-> "metadata", n |-> 0]
            /\ \A j \in 1..Len(media) :
                  /\ media[j].kind \in {"image", "video"}
                  /\ media[j].dir = dNote.author
            /\ \A k \in 1..dNote.imgs :
                  (k \in dFetched.imgs) <=>
                     (\E j \in 1..Len(media) : media[j].kind = "image" /\ media[j].n = k)
            /\ dFetched.video <=> (\E j \in 1..Len(media) : media[j].kind = "video")
            /\ Len(media) = Cardinality(dFetched.imgs) + (IF dFetched.video THEN 1 ELSE 0)
            /\ \A j, k \in 1..Len(media) :
                  (j < k /\ media[k].kind = "image") =>
                     (media[j].kind = "image" /\ media[j].n < media[k].n)
            /\ dMeta = [j \in 1..Len(media) |-> [kind |-> media[j].kind, n |-> media[j].n]]

\* downloadNote has returned for a note with two images after the fetch of
\* the first image failed.
C24_Witness ==
    /\ op = "batch"
    /\ dPc = "download_return"
    /\ dNote.imgs = 2
    /\ dFetched.imgs = {2}
    /\ Len(dFiles) = 2
    /\ Len(dMeta) = 1

\* downloadNote has returned for a video note whose video fetch failed.
C24_WitnessVideo ==
    /\ op = "batch"
    /\ dPc = "download_return"
    /\ dNote.video
    /\ ~dFetched.video
    /\ dFetched.imgs = {1}

\* The steps of publishNote / executeVideoPublishWorkflow in source order.
PublishStepOrder(in) ==
    <<"navigate", "tab", "upload", "title", "content">>
    \o (IF in.tags # "" THEN <<"tags">> ELSE <<>>)
    \o <<"publish", "completion", "cookies">>

\* The steps taken, whether or not the upload's completion was observed.
StepNames(steps) ==
    [i \in 1..Len(steps) |-> IF steps[i] = "upload_unconfirmed" THEN "upload" ELSE steps[i]]

\* C28 as stated: the steps occur in the fixed order, the title is typed only
\* after upload completion was observed, and publish is clicked only after
\* the title and content steps returned.
C28_StepsInOrderAfterObservedUpload ==
    op = "publish" => IsPrefix(pSteps, PublishStepOrder(pIn))

\* C28: the steps of a publish occur in the fixed order navigate, tab, upload,
\* title, content, tags (if any), publish click, completion, cookies, none
\* skipped and none repeated, so that publish is clicked only after the title
\* and content steps returned; an image upload has been observed complete
\* before the title is typed, while a video upload may also be left behind
\* by a processing wait that timed out or was rejected.
C28_StepsInOrder ==
    op = "publish" =>
        /\ IsPrefix(StepNames(pSteps), PublishStepOrder(pIn))
        /\ pIn.type = "image" => IsPrefix(pSteps, PublishStepOrder(pIn))
        /\ pClicks > 0 =>
              \E i, j, k \in 1..Len(pSteps) :
                  /\ i < j /\ j < k
                  /\ pSteps[i] = "title" /\ pSteps[j] = "content" /\ pSteps[k] = "publish"
        /\ pc \in {"content", "tags", "submit", "wait_upload", "wait_publish", "extract",
                   "extract_dom", "extract_listing", "extract_listing_close", "save"} =>
              \E i \in 1..Len(pSteps) : pSteps[i] = "title"

\* C28: a video publish with tags ran every step and returned, its processing
\* wait having ended without completion observed before the title was typed.
C28_Witness ==
    /\ op = "publish"
    /\ pc = "done"
    /\ outcome.status = "ok"
    /\ pIn.type = "video"
    /\ wKind = "videoPublish"
    /\ pSteps = <<"navigate", "tab", "upload_unconfirmed", "title", "content", "tags",
                  "publish", "completion", "cookies">>

\* C28: an image publish without tags ran every step and returned.
C28_WitnessImage ==
    /\ op = "publish"
    /\ pc = "done"
    /\ outcome.status = "ok"
    /\ pIn.type = "image"
    /\ pSteps = <<"navigate", "tab", "upload", "title", "content",
                  "publish", "completion", "cookies">>

ExtractorOrder == <<"url", "dom", "listing">>

\* C29: extractNoteIdFromPage runs its extractors in the order URL pattern,
\* DOM scan, latest-note listing; every extractor that ran before the last
\* one found nothing, so the result is the first identifier found; the
\* listing, and the page it opens, come only after both the URL and the DOM
\* extraction found nothing.
C29_FirstExtractorWins ==
    op = "publish" =>
        /\ IsPrefix([i \in 1..Len(xRan) |-> xRan[i].by], ExtractorOrder)
        /\ \A i \in 1..(Len(xRan) - 1) : xRan[i].id = ""
        /\ (pc \in {"save", "finally", "done"} /\ xRan # <<>>) =>
              pNoteId = xRan[Len(xRan)].id
        /\ (pc \in {"extract_listing", "extract_listing_close"} \/ xPage # 0) =>
              xRan = <<[by |-> "url", id |-> ""], [by |-> "dom", id |-> ""]>>
        /\ xRan = <<>> => pNoteId = ""

\* C29: URL and DOM found nothing and the listing gave the identifier that
\* the publish returned.
C29_Witness ==
    /\ op = "publish"
    /\ pc = "done"
    /\ pageCount = 2
    /\ xRan = <<[by |-> "url", id |-> ""], [by |-> "dom", id |-> ""],
                [by |-> "listing", id |-> "id"]>>
    /\ outcome.status = "ok"
    /\ outcome.noteId = "id"

\* C29: the DOM scan found the identifier and no listing page was opened.
C29_WitnessDom ==
    /\ op = "publish"
    /\ pc = "done"
    /\ pageCount = 1
    /\ xRan = <<[by |-> "url", id |-> ""], [by |-> "dom", id |-> "id"]>>
    /\ outcome.status = "ok"
    /\ outcome.noteId = "id"

\* C30: every element a resolution helper accepts has passed a visibility
\* check: it is visible.
C30_AcceptedTargetsAreVisible ==
    (op = "resolve" /\ rPc = "accepted") => rFound.visible

\* C30: fillTitle and clickUploadTab accept visible elements only, and any
\* helper accepts the first match that its strategy lets through.
C30_TitleAndTabAreVisible ==
    (op = "resolve" /\ rPc = "accepted") =>
        /\ rTarget \in {"title", "tab"} => rFound.visible
        /\ rDom[rFound.strategy] # "none"
        /\ rWrites = <<>> =>
              \A i \in 1..(rFound.strategy - 1) : ~Accepts(Strategies(rTarget)[i], rDom[i])

\* C30: the publish button accepted is a hidden one although a later
\* strategy would have given a visible one.
C30_HiddenButtonAccepted ==
    /\ op = "resolve"
    /\ rPc = "accepted"
    /\ rTarget = "publish button"
    /\ rDom = <<"hidden", "visible">>
    /\ rFound = [strategy |-> 1, visible |-> FALSE]

\* C30: fillContent is handed a hidden div.ql-editor.
C30_HiddenEditorAccepted ==
    /\ op = "resolve"
    /\ rPc = "accepted"
    /\ rTarget = "content"
    /\ rFound = [strategy |-> 7, visible |-> FALSE]

\* The strategies whose first match is a visible element.
VisibleAt(dom) == { i \in DOMAIN dom : dom[i] = "visible" }

\* The strategies whose element fillTitle clicked or typed into.
WrittenAt(writes) == { writes[k].strategy : k \in 1..Len(writes) }

C31_WitnessNoneVisible ==
    /\ op = "resolve"
    /\ rTarget = "title"
    /\ rPc = "notfound"
    /\ VisibleAt(rDom) = {}
    /\ \E i \in DOMAIN rDom : rDom[i] = "hidden"
    /\ rWrites = <<>>
    /\ rErr.error = "PublishError"

\* fillContent has ended after its style check found the element not clickable.
ContentNotClickable ==
    /\ op = "resolve"
    /\ rTarget = "content"
    /\ rPc \in {"done", "failed"}
    /\ ~rFound.clickable

\* C38: when the resolved content element is not visible or not clickable,
\* fillContent fails with PublishError 'Content element is not clickable or
\* visible' and writes nothing into the element.
C38_UnclickableContentFails ==
    ContentNotClickable =>
        /\ rErr = Err("PublishError", "Content element is not clickable or visible")
        /\ rWrites = <<>>

\* C38: what the code does keep: an element that fails the style check is
\* never clicked or typed into, and the only error is the one of the
\* alternative method.
C38_UnclickableContentNotTyped ==
    ContentNotClickable =>
        /\ \A k \in 1..Len(rWrites) : rWrites[k].by = "evaluate"
        /\ rErr \in {NoErr, Err("PublishError", "Failed to fill content")}
        /\ rPc = "done" <=> rErr = NoErr

\* C38: the element failed the style check, fillContent returned normally and
\* the content was set on that element.
C38_UnclickableContentWritten ==
    /\ ContentNotClickable
    /\ rPc = "done"
    /\ rErr = NoErr
    /\ rWrites = <<[strategy |-> rFound.strategy, wrote |-> "all", by |-> "evaluate"]>>

\* C33: during a single domain operation at most one page created for it is
\* open at any time; a helper step that needs a page of its own opens it only
\* while no other page of the operation is open.
C33_AtMostOnePageOpen ==
    Cardinality(openPages) <= 1

\* C33: what the code does keep: the download and user services, and publish
\* outside the listing fallback of its note-id extraction, hold one page at
\* most (the short-link, direct-handle and search helpers each close their
\* page before the next one is created).
C33_OnePageOutsideListingFallback ==
    ~(op = "publish" /\ pc = "extract_listing_close") => Cardinality(openPages) <= 1

\* C33: the listing fallback has its own page open while the publish page,
\* closed only in publishNote's finally, is still open.
C33_TwoPagesOpen ==
    /\ op = "publish"
    /\ pc = "extract_listing_close"
    /\ pPage # 0
    /\ xPage # 0
    /\ pPage # xPage
    /\ openPages = {pPage, xPage}

\* A delete request that names a note id and sets last_published as well.
DeleteWithBothTargets ==
    /\ fReq.name \in {"xhs_delete_note", "usernote delete"}
    /\ fReq.noteId
    /\ fReq.lastPublished

\* C37: delete-note called with both a note id and last_published = true
\* deletes the last published note and ignores the note id: on the MCP
\* handler and on the CLI the one service call made is
\* deleteLastPublishedNote, and deleteNote is never called.
C37_LastPublishedOverridesNoteId ==
    DeleteWithBothTargets =>
        /\ \A k \in 1..Len(fCalls) : fCalls[k] # "NoteService.deleteNote"
        /\ fPc \in {"catch", "respond", "resolved", "exited"} =>
              fCalls = <<"NoteService.deleteLastPublishedNote">>

\* C37: the CLI command was given both targets and has ended.
C37_Witness ==
    /\ DeleteWithBothTargets
    /\ fLayer = "cli"
    /\ fPc = "exited"
    /\ fCalls = <<"NoteService.deleteLastPublishedNote">>

\* C37: the MCP handler was given both targets and has answered.
C37_WitnessTool ==
    /\ DeleteWithBothTargets
    /\ fLayer = "tool"
    /\ fPc = "resolved"
    /\ fCalls = <<"NoteService.deleteLastPublishedNote">>

\* waitForVideoPublishCompletion has slept after its first tick, which
\* settled nothing; isProcessing holds what that tick read, processing or not
\* (wSawProc).
VideoPublishSleptOnce ==
    /\ wKind = "videoPublish"
    /\ wPhase = "poll"
    /\ wSlept # 0
    /\ wElapsed = wSlept

\* C32: in waitForVideoPublishCompletion the poll interval is chosen per tick
\* from the latest processing reading: the sleep after a tick that observed a
\* processing indicator differs from the sleep after a tick that observed none.
C32_IntervalFollowsProcessing ==
    VideoPublishSleptOnce => wSlept = VideoPublishCheckInterval(wSawProc)

\* C32: what the code does: the interval is the one argument evaluated when
\* waitForCondition is called, with isProcessing still false, and every tick
\* sleeps COMPLETION_CHECK whatever it observed.
C32_IntervalFixedAtCall ==
    (wKind = "videoPublish" /\ wSlept # 0) => wSlept = CompletionCheck

\* C32: the tick observed a processing indicator and the wait slept the same
\* interval as after a tick without one.
C32_ProcessingTickSleptDefault ==
    /\ VideoPublishSleptOnce
    /\ wSawProc
    /\ wSlept = CompletionCheck
    /\ wSlept # ProcessingPollInterval

\* C34: every polling wait of the publish flow (waitForCondition,
\* waitForPublishCompletion, waitForVideoUploadCompletion) ends, by return, by
\* a thrown error or by its timeout, whatever the page shows on each tick; the
\* time it has waited never passes its timeout by more than one sleep.
C34_EveryWaitEnds ==
    /\ <>(wPhase = "resolved" /\ wOutcome \in {"succeeded", "failed", "thrown", "timeout"})
    /\ [](wElapsed < WaitTimeout(wKind) + ProcessingPollInterval)

\* C34: the page query of waitForVideoUploadCompletion throws on the tick
\* after which the wait runs into its timeout.
C34_Witness ==
    /\ wKind = "upload"
    /\ wPhase = "observed"
    /\ wDom.q = "throws"
    /\ wElapsed + UploadErrorSleep >= UploadCompletionTimeout

\* C34: waitForPublishCompletion ran into its timeout on a page that never
\* showed any signal.
C34_WitnessNeverTrue ==
    /\ wKind = "publish"
    /\ wPhase = "resolved"
    /\ wOutcome = "timeout"
    /\ wAllQuiet

\* C35: every page navigation of the download and user services is retried
\* up to the bounded attempt count before the operation fails: a navigation
\* that has failed, short-link resolution and the direct-handle probe
\* included, has made all its attempts.
C35_FailedNavigationWasRetried ==
    ~nav.ok => nav.attempts = MaxAttempts

\* C35: what the code does keep: the navigations made with navigateWithRetry
\* (the note page, the profile page, the user search) fail only after the
\* last attempt.
C35_NavigateWithRetryExhausts ==
    /\ (~nav.ok /\ nav.by = "navigateWithRetry") => nav.attempts = MaxAttempts
    /\ nav.by = "goto" =>
          \/ op \in {"detail", "batch"} /\ dNote.short
          \/ op \in {"profile", "links"} /\ pc \in {"short_finally", "direct_finally"}

\* C35: getNoteDetail of a short link is about to fail on the one attempt of
\* its page.goto.
C35_ShortLinkFailedOnFirstAttempt ==
    /\ op = "detail"
    /\ dPc = "detail_finally"
    /\ dNote.short
    /\ nav = [by |-> "goto", attempts |-> 1, ok |-> FALSE]
    /\ dErr = <<"TimeoutError">>

\* C35: the direct-handle probe failed on its one attempt and the operation
\* is diverted to the user search.
C35_ProbeDivertedOnFirstFailure ==
    /\ op = "profile"
    /\ pc = "direct_finally"
    /\ nav = [by |-> "goto", attempts |-> 1, ok |-> FALSE]
    /\ uPending = "throw"

\* An operation has ended in failure because navigateWithRetry gave up.
NavigationFailureResult ==
    /\ pc = "done"
    /\ outcome.status = "thrown"
    /\ \/ op = "publish" /\ pErr.error = "BrowserNavigationError"
       \/ /\ op \in {"detail", "profile", "links"}
          /\ \E i \in 1..Len(outcome.message) : outcome.message[i] = "BrowserNavigationError"

\* C36: when navigation fails after its retries inside a domain operation,
\* the failure result of the operation has the Browser error kind
\* (BrowserNavigationError, code 'BrowserError') and carries the last
\* underlying error as context, in getNoteDetail, downloadNote,
\* getUserProfile and getUserNoteLinks as well as in publish.
C36_NavigationFailureIsBrowserError ==
    /\ NavigationFailureResult =>
          /\ outcome.error = "BrowserNavigationError"
          /\ "originalError" \in outcome.context
    /\ \A k \in 1..Len(bThrown) :
          (\E i \in 1..Len(bThrown[k].error) : bThrown[k].error[i] = "BrowserNavigationError")
              => bThrown[k].error[1] = "BrowserNavigationError"

\* C36: what the code does: publish rethrows the error it caught, so its
\* failure is the BrowserNavigationError; the download and user services wrap
\* it into a DownloadError made from a message alone, and downloadNote wraps
\* getNoteDetail's error once more.
C36_OnlyPublishKeepsBrowserError ==
    /\ NavigationFailureResult =>
          IF op = "publish"
          THEN outcome.error = "BrowserNavigationError" /\ "originalError" \in outcome.context
          ELSE outcome.error = "DownloadError" /\ outcome.context = {}
    /\ \A k \in 1..Len(bThrown) :
          (\E i \in 1..Len(bThrown[k].error) : bThrown[k].error[i] = "BrowserNavigationError")
              => bThrown[k].error = <<"Failed to download note", "Failed to get note detail",
                                      "BrowserNavigationError">>

\* C36: getNoteDetail failed on navigation after all attempts and its failure
\* is a DownloadError with an empty context.
C36_NavigationFailureAsDownloadError ==
    /\ NavigationFailureResult
    /\ op = "detail"
    /\ outcome.error = "DownloadError"
    /\ outcome.message = <<"Failed to get note detail", "BrowserNavigationError">>
    /\ outcome.context = {}

\* C36: publish failed on navigation and its failure is the
\* BrowserNavigationError.
C36_PublishNavigationFailure ==
    /\ NavigationFailureResult
    /\ op = "publish"
    /\ outcome.error = "BrowserNavigationError"

\* The notes handed to batchDownloadNotes are pairwise different notes.
DistinctNotesRequested ==
    LET notes == NotesToDownload(bNotes, bLimit)
    IN  \A i, j \in 1..Len(notes) : notes[i].noteId = notes[j].noteId => i = j

MetadataOnDisk == { e \in disk : e.path.kind = "metadata" }

\* C27: when the notes of a batch are distinct, no path occurs twice in
\* result.files, and the metadata.json of every note downloaded so far is still
\* on disk (one per downloaded note).
C27_EarlierFilesRetained ==
    (op = "batch" /\ DistinctNotesRequested) =>
        /\ \A i, j \in 1..Len(bRes.files) : bRes.files[i] = bRes.files[j] => i = j
        /\ Cardinality(MetadataOnDisk) >= bRes.downloadedCount

\* C27: a batch of two distinct notes of one author is over, both were
\* downloaded, and the one metadata.json on disk is the second note's.
C27_MetadataOverwritten ==
    /\ op = "batch"
    /\ pc = "done"
    /\ DistinctNotesRequested
    /\ bRes.downloadedCount = 2
    /\ bRes.failedCount = 0
    /\ MetadataOnDisk = { [path |-> MetadataFile(bNotes[2]), owner |-> bNotes[2].noteId] }
    /\ \E i, j \in 1..Len(bRes.files) : i < j /\ bRes.files[i] = bRes.files[j]

\* C27: a batch of one note keeps every file it wrote
C27_SingleNoteRetained ==
    (op = "batch" /\ Len(NotesToDownload(bNotes, bLimit)) <= 1) =>
        /\ \A i, j \in 1..Len(bRes.files) : bRes.files[i] = bRes.files[j] => i = j
        /\ Cardinality(MetadataOnDisk) >= bRes.downloadedCount

\* Completion detection of the publish has resolved to SUCCEEDED and the
\* operation is over.
PublishSucceededAndOver ==
    /\ op = "publish"
    /\ pc = "done"
    /\ wKind \in CompletionKinds
    /\ wOutcome = "succeeded"

C25_WitnessVideo ==
    /\ PublishSucceededAndOver
    /\ pIn.type = "video"
    /\ pIn.media.n = 1
    /\ outcome.status = "ok"
    /\ outcome.imageCount = 0

====
